---------------------------- MODULE Spec2Model ----------------------------
(***************************************************************************)
(* A model of the nes6502 CPU core (src/src/lib.rs and                     *)
(* src/src/instruction).  The Cpu struct is the record cpu; every          *)
(* method of the core is an operator from a Cpu record to a Cpu record,    *)
(* and every call of the public API is one action.  A Rust panic is the    *)
(* field panic of the record  : once it is set the remaining statements of *)
(* the call are skipped (the thread unwinds) and no further call is made.  *)
(***************************************************************************)
EXTENDS Integers, Sequences, FiniteSets, TLC

VARIABLES
    cpu,              \* the Cpu struct, its Mapper and its Interrupts collaborator
    overflow_checks,  \* build profile: TRUE = debug (+ and - panic on overflow), FALSE = release (wrap)
    call,             \* the public API call made last
    before,           \* the Cpu as it was when that call was made
    ret,              \* what that call returned (cycles / ok / instruction), None while none
    ncalls,           \* number of API calls made so far
    origin,           \* the Cpu as it was constructed
    snapshot          \* the CpuState it was restored from, None when made by new()

vars == <<cpu, overflow_checks, call, before, ret, ncalls, origin, snapshot>>

----------------------------------------------------------------------------
(* Option<T> *)

None == <<>>

Some(v) == <<v>>

unwrap(o) == o[1]

----------------------------------------------------------------------------
(* u8 / u16 arithmetic and bit operations *)

U8 == 0..255

U16 == 0..65535

Bit(v, n) == (v \div (2 ^ n)) % 2

BitAnd(a, b) ==
    LET f[i \in 0..16] == IF i = 16 THEN 0 ELSE Bit(a, i) * Bit(b, i) * (2 ^ i) + f[i + 1]
    IN  f[0]

BitOr(a, b) ==
    LET f[i \in 0..16] ==
            IF i = 16 THEN 0
            ELSE (IF Bit(a, i) + Bit(b, i) > 0 THEN 2 ^ i ELSE 0) + f[i + 1]
    IN  f[0]

BitXor(a, b) ==
    LET f[i \in 0..16] ==
            IF i = 16 THEN 0
            ELSE (IF Bit(a, i) # Bit(b, i) THEN 2 ^ i ELSE 0) + f[i + 1]
    IN  f[0]

wrapping_add8(a, b) == (a + b) % 256

wrapping_sub8(a, b) == (a - b + 256) % 256

wrapping_add16(a, b) == (a + b) % 65536

wrapping_sub16(a, b) == (a - b + 65536) % 65536

Shl8(v) == (v * 2) % 256

Shr(v, n) == v \div (2 ^ n)

unpack_low(packed) == BitAnd(packed, \h00FF)

unpack_high(packed) == BitAnd(packed \div 256, \h00FF)

pack_bytes(low_byte, high_byte) == BitOr(high_byte * 256, low_byte)

pack_bytes_wrapped(low_byte, high_byte) == BitOr(unwrap(high_byte) * 256, unwrap(low_byte))

----------------------------------------------------------------------------
(* Program constants *)

STACK_POINTER_STARTING_VALUE == 0

NMI_VECTOR_ADDRESS == \hFFFA

RESET_VECTOR_ADDRESS == \hFFFC

IRQ_BRK_VECTOR_ADDRESS == \hFFFE

NoPanic == "none"

----------------------------------------------------------------------------
(* Mapper: a 64 KiB zero-filled RAM, kept as the function of its nonzero   *)
(* cells (a cell outside the domain reads 0).                              *)

MapperRead(memory, address) ==
    IF address \in DOMAIN memory THEN memory[address] ELSE 0

MapperWrite(memory, address, byte) ==
    IF byte = 0
    THEN [a \in (DOMAIN memory) \ {address} |-> memory[a]]
    ELSE (address :> byte) @@ memory

read(c, address) == MapperRead(c.memory_mapper, address)

write(c, address, value) ==
    IF c.panic # NoPanic THEN c
    ELSE [c EXCEPT !.memory_mapper = MapperWrite(@, address, value)]

Panic(c, message) == IF c.panic # NoPanic THEN c ELSE [c EXCEPT !.panic = message]

----------------------------------------------------------------------------
(* ProcessorStatus: an 8-bit value, bit0 C, bit1 Z, bit2 I, bit3 D,        *)
(* bit4 B, bit5 unused, bit6 V, bit7 N.                                    *)

FlagSet(c, n) ==
    IF c.panic # NoPanic THEN c
    ELSE [c EXCEPT !.processor_status = BitOr(@, 2 ^ n)]

FlagClear(c, n) ==
    IF c.panic # NoPanic THEN c
    ELSE [c EXCEPT !.processor_status = BitAnd(@, 255 - (2 ^ n))]

FlagPut(c, n, b) == IF b THEN FlagSet(c, n) ELSE FlagClear(c, n)

ProcessorStatus_new == 0

carry_flag(c) == Bit(c.processor_status, 0) = 1

zero_flag(c) == Bit(c.processor_status, 1) = 1

interrupt_disable_flag(c) == Bit(c.processor_status, 2) = 1

decimal_flag(c) == Bit(c.processor_status, 3) = 1

break_flag(c) == Bit(c.processor_status, 4) = 1

overflow_flag(c) == Bit(c.processor_status, 6) = 1

negative_flag(c) == Bit(c.processor_status, 7) = 1

set_carry_flag(c) == FlagSet(c, 0)

clear_carry_flag(c) == FlagClear(c, 0)

set_zero_flag(c) == FlagSet(c, 1)

clear_zero_flag(c) == FlagClear(c, 1)

set_interrupt_disable_flag(c) == FlagSet(c, 2)

clear_interrupt_disable_flag(c) == FlagClear(c, 2)

set_decimal_flag(c) == FlagSet(c, 3)

clear_decimal_flag(c) == FlagClear(c, 3)

set_break_flag(c) == FlagSet(c, 4)

clear_break_flag(c) == FlagClear(c, 4)

set_overflow_flag(c) == FlagSet(c, 6)

clear_overflow_flag(c) == FlagClear(c, 6)

set_negative_flag(c) == FlagSet(c, 7)

clear_negative_flag(c) == FlagClear(c, 7)

modify_zero_flag(c, byte) == IF byte = 0 THEN set_zero_flag(c) ELSE clear_zero_flag(c)

modify_negative_flag(c, byte) ==
    IF Shr(byte, 7) # 0 THEN set_negative_flag(c) ELSE clear_negative_flag(c)

----------------------------------------------------------------------------
(* The stack (execution/mod.rs).  push writes, then decrements with       *)
(* checked_sub; pop increments with checked_add, then reads.               *)

(* A push that moves the stack pointer before it writes. *)
push_predecrement(c, byte) ==
    IF c.panic # NoPanic THEN c
    ELSE IF c.stack_pointer - 1 < 0
         THEN Panic(c, "Cpu stack overflow")
         ELSE write([c EXCEPT !.stack_pointer = @ - 1],
                    BitOr(\h0100, c.stack_pointer - 1), byte)

push(c, byte) ==
    IF c.panic # NoPanic THEN c
    ELSE LET w == write(c, BitOr(\h0100, c.stack_pointer), byte)
         IN  IF w.stack_pointer - 1 < 0
             THEN Panic(w, "Cpu stack overflow")
             ELSE [w EXCEPT !.stack_pointer = @ - 1]

pop_cpu(c) ==
    IF c.panic # NoPanic THEN c
    ELSE IF c.stack_pointer + 1 > 255
         THEN Panic(c, "Cpu stack underflow")
         ELSE [c EXCEPT !.stack_pointer = @ + 1]

pop_byte(c) ==
    LET p == pop_cpu(c)
    IN  IF p.panic # NoPanic THEN 0 ELSE read(p, BitOr(\h0100, p.stack_pointer))


----------------------------------------------------------------------------
(* The decoder (instruction/mod.rs): opcode byte to Option<FullOpcode>.    *)

bytes_required(addressing_mode) ==
    CASE addressing_mode \in {"Accumulator", "Implied"} -> 1
      [] addressing_mode \in {"Immediate", "IndirectXIndexed", "IndirectYIndexed", "Relative",
                              "Zeropage", "ZeropageXIndexed", "ZeropageYIndexed"} -> 2
      [] addressing_mode \in {"Absolute", "AbsoluteXIndexed", "AbsoluteYIndexed", "Indirect"} -> 3

FullOpcode(opcode, addressing_mode) == [opcode |-> opcode, addressing_mode |-> addressing_mode]

low_nibble_0(high_nibble) ==
    CASE high_nibble = 0 -> Some(FullOpcode("BRK", "Implied"))
      [] high_nibble = 1 -> Some(FullOpcode("BPL", "Relative"))
      [] high_nibble = 2 -> Some(FullOpcode("JSR", "Absolute"))
      [] high_nibble = 3 -> Some(FullOpcode("BMI", "Relative"))
      [] high_nibble = 4 -> Some(FullOpcode("RTI", "Implied"))
      [] high_nibble = 5 -> Some(FullOpcode("BVC", "Relative"))
      [] high_nibble = 6 -> Some(FullOpcode("RTS", "Implied"))
      [] high_nibble = 7 -> Some(FullOpcode("BVS", "Relative"))
      [] high_nibble = 8 -> None
      [] high_nibble = 9 -> Some(FullOpcode("BCC", "Relative"))
      [] high_nibble = 10 -> Some(FullOpcode("LDY", "Immediate"))
      [] high_nibble = 11 -> Some(FullOpcode("BCS", "Relative"))
      [] high_nibble = 12 -> Some(FullOpcode("CPY", "Immediate"))
      [] high_nibble = 13 -> Some(FullOpcode("BNE", "Relative"))
      [] high_nibble = 14 -> Some(FullOpcode("CPX", "Immediate"))
      [] high_nibble = 15 -> Some(FullOpcode("BEQ", "Relative"))

low_nibble_1(high_nibble) ==
    CASE high_nibble = 0 -> Some(FullOpcode("ORA", "IndirectXIndexed"))
      [] high_nibble = 1 -> Some(FullOpcode("ORA", "IndirectYIndexed"))
      [] high_nibble = 2 -> Some(FullOpcode("AND", "IndirectXIndexed"))
      [] high_nibble = 3 -> Some(FullOpcode("AND", "IndirectYIndexed"))
      [] high_nibble = 4 -> Some(FullOpcode("EOR", "IndirectXIndexed"))
      [] high_nibble = 5 -> Some(FullOpcode("EOR", "IndirectYIndexed"))
      [] high_nibble = 6 -> Some(FullOpcode("ADC", "IndirectXIndexed"))
      [] high_nibble = 7 -> Some(FullOpcode("ADC", "IndirectYIndexed"))
      [] high_nibble = 8 -> Some(FullOpcode("STA", "IndirectXIndexed"))
      [] high_nibble = 9 -> Some(FullOpcode("STA", "IndirectYIndexed"))
      [] high_nibble = 10 -> Some(FullOpcode("LDA", "IndirectXIndexed"))
      [] high_nibble = 11 -> Some(FullOpcode("LDA", "IndirectYIndexed"))
      [] high_nibble = 12 -> Some(FullOpcode("CMP", "IndirectXIndexed"))
      [] high_nibble = 13 -> Some(FullOpcode("CMP", "IndirectYIndexed"))
      [] high_nibble = 14 -> Some(FullOpcode("SBC", "IndirectXIndexed"))
      [] high_nibble = 15 -> Some(FullOpcode("SBC", "IndirectYIndexed"))

(* A column 2 that decodes every row as LDX immediate. *)
low_nibble_2_filled(high_nibble) == Some(FullOpcode("LDX", "Immediate"))

low_nibble_2(high_nibble) ==
    CASE high_nibble \in {0, 1, 2, 3, 4, 5, 6, 7, 8, 9} -> None
      [] high_nibble = 10 -> Some(FullOpcode("LDX", "Immediate"))
      [] high_nibble \in {11, 12, 13, 14, 15} -> None

low_nibble_4(high_nibble) ==
    CASE high_nibble = 0 \/ high_nibble = 1 -> None
      [] high_nibble = 2 -> Some(FullOpcode("BIT", "Zeropage"))
      [] high_nibble = 3 -> None
      [] high_nibble = 4 -> None
      [] high_nibble = 5 -> None
      [] high_nibble = 6 -> None
      [] high_nibble = 7 -> None
      [] high_nibble = 8 -> Some(FullOpcode("STY", "Zeropage"))
      [] high_nibble = 9 -> Some(FullOpcode("STY", "ZeropageXIndexed"))
      [] high_nibble = 10 -> Some(FullOpcode("LDY", "Zeropage"))
      [] high_nibble = 11 -> Some(FullOpcode("LDY", "ZeropageXIndexed"))
      [] high_nibble = 12 -> Some(FullOpcode("CPY", "Zeropage"))
      [] high_nibble = 13 -> None
      [] high_nibble = 14 -> Some(FullOpcode("CPX", "Zeropage"))
      [] high_nibble = 15 -> None

low_nibble_5(high_nibble) ==
    CASE high_nibble = 0 -> Some(FullOpcode("ORA", "Zeropage"))
      [] high_nibble = 1 -> Some(FullOpcode("ORA", "ZeropageXIndexed"))
      [] high_nibble = 2 -> Some(FullOpcode("AND", "Zeropage"))
      [] high_nibble = 3 -> Some(FullOpcode("AND", "ZeropageXIndexed"))
      [] high_nibble = 4 -> Some(FullOpcode("EOR", "Zeropage"))
      [] high_nibble = 5 -> Some(FullOpcode("EOR", "ZeropageXIndexed"))
      [] high_nibble = 6 -> Some(FullOpcode("ADC", "Zeropage"))
      [] high_nibble = 7 -> Some(FullOpcode("ADC", "ZeropageXIndexed"))
      [] high_nibble = 8 -> Some(FullOpcode("STA", "Zeropage"))
      [] high_nibble = 9 -> Some(FullOpcode("STA", "ZeropageXIndexed"))
      [] high_nibble = 10 -> Some(FullOpcode("LDA", "Zeropage"))
      [] high_nibble = 11 -> Some(FullOpcode("LDA", "ZeropageXIndexed"))
      [] high_nibble = 12 -> Some(FullOpcode("CMP", "Zeropage"))
      [] high_nibble = 13 -> Some(FullOpcode("CMP", "ZeropageXIndexed"))
      [] high_nibble = 14 -> Some(FullOpcode("SBC", "Zeropage"))
      [] high_nibble = 15 -> Some(FullOpcode("SBC", "ZeropageXIndexed"))

low_nibble_6(high_nibble) ==
    CASE high_nibble = 0 -> Some(FullOpcode("ASL", "Zeropage"))
      [] high_nibble = 1 -> Some(FullOpcode("ASL", "ZeropageXIndexed"))
      [] high_nibble = 2 -> Some(FullOpcode("ROL", "Zeropage"))
      [] high_nibble = 3 -> Some(FullOpcode("ROL", "ZeropageXIndexed"))
      [] high_nibble = 4 -> Some(FullOpcode("LSR", "Zeropage"))
      [] high_nibble = 5 -> Some(FullOpcode("LSR", "ZeropageXIndexed"))
      [] high_nibble = 6 -> Some(FullOpcode("ROR", "Zeropage"))
      [] high_nibble = 7 -> Some(FullOpcode("ROR", "ZeropageXIndexed"))
      [] high_nibble = 8 -> Some(FullOpcode("STX", "Zeropage"))
      [] high_nibble = 9 -> Some(FullOpcode("STX", "ZeropageXIndexed"))
      [] high_nibble = 10 -> Some(FullOpcode("LDX", "Zeropage"))
      [] high_nibble = 11 -> Some(FullOpcode("LDX", "ZeropageXIndexed"))
      [] high_nibble = 12 -> Some(FullOpcode("DEC", "Zeropage"))
      [] high_nibble = 13 -> Some(FullOpcode("DEC", "ZeropageXIndexed"))
      [] high_nibble = 14 -> Some(FullOpcode("INC", "Zeropage"))
      [] high_nibble = 15 -> Some(FullOpcode("INC", "ZeropageXIndexed"))

low_nibble_8(high_nibble) ==
    CASE high_nibble = 0 -> Some(FullOpcode("PHP", "Implied"))
      [] high_nibble = 1 -> Some(FullOpcode("CLC", "Implied"))
      [] high_nibble = 2 -> Some(FullOpcode("PLP", "Implied"))
      [] high_nibble = 3 -> Some(FullOpcode("SEC", "Implied"))
      [] high_nibble = 4 -> Some(FullOpcode("PHA", "Implied"))
      [] high_nibble = 5 -> Some(FullOpcode("CLI", "Implied"))
      [] high_nibble = 6 -> Some(FullOpcode("PLA", "Implied"))
      [] high_nibble = 7 -> Some(FullOpcode("SEI", "Implied"))
      [] high_nibble = 8 -> Some(FullOpcode("DEY", "Implied"))
      [] high_nibble = 9 -> Some(FullOpcode("TYA", "Implied"))
      [] high_nibble = 10 -> Some(FullOpcode("TAY", "Implied"))
      [] high_nibble = 11 -> Some(FullOpcode("CLV", "Implied"))
      [] high_nibble = 12 -> Some(FullOpcode("INY", "Implied"))
      [] high_nibble = 13 -> Some(FullOpcode("CLD", "Implied"))
      [] high_nibble = 14 -> Some(FullOpcode("INX", "Implied"))
      [] high_nibble = 15 -> Some(FullOpcode("SED", "Implied"))

low_nibble_9(high_nibble) ==
    CASE high_nibble = 0 -> Some(FullOpcode("ORA", "Immediate"))
      [] high_nibble = 1 -> Some(FullOpcode("ORA", "AbsoluteYIndexed"))
      [] high_nibble = 2 -> Some(FullOpcode("AND", "Immediate"))
      [] high_nibble = 3 -> Some(FullOpcode("AND", "AbsoluteYIndexed"))
      [] high_nibble = 4 -> Some(FullOpcode("EOR", "Immediate"))
      [] high_nibble = 5 -> Some(FullOpcode("EOR", "AbsoluteYIndexed"))
      [] high_nibble = 6 -> Some(FullOpcode("ADC", "Immediate"))
      [] high_nibble = 7 -> Some(FullOpcode("ADC", "AbsoluteYIndexed"))
      [] high_nibble = 8 -> None
      [] high_nibble = 9 -> Some(FullOpcode("STA", "AbsoluteYIndexed"))
      [] high_nibble = 10 -> Some(FullOpcode("LDA", "Immediate"))
      [] high_nibble = 11 -> Some(FullOpcode("LDA", "AbsoluteYIndexed"))
      [] high_nibble = 12 -> Some(FullOpcode("CMP", "Immediate"))
      [] high_nibble = 13 -> Some(FullOpcode("CMP", "AbsoluteYIndexed"))
      [] high_nibble = 14 -> Some(FullOpcode("SBC", "Immediate"))
      [] high_nibble = 15 -> Some(FullOpcode("SBC", "AbsoluteYIndexed"))

low_nibble_a(high_nibble) ==
    CASE high_nibble = 0 -> Some(FullOpcode("ASL", "Accumulator"))
      [] high_nibble = 1 -> None
      [] high_nibble = 2 -> Some(FullOpcode("ROL", "Accumulator"))
      [] high_nibble = 3 -> None
      [] high_nibble = 4 -> Some(FullOpcode("LSR", "Accumulator"))
      [] high_nibble = 5 -> None
      [] high_nibble = 6 -> Some(FullOpcode("ROR", "Accumulator"))
      [] high_nibble = 7 -> None
      [] high_nibble = 8 -> Some(FullOpcode("TXA", "Implied"))
      [] high_nibble = 9 -> Some(FullOpcode("TXS", "Implied"))
      [] high_nibble = 10 -> Some(FullOpcode("TAX", "Implied"))
      [] high_nibble = 11 -> Some(FullOpcode("TSX", "Implied"))
      [] high_nibble = 12 -> Some(FullOpcode("DEX", "Implied"))
      [] high_nibble = 13 -> None
      [] high_nibble = 14 -> Some(FullOpcode("NOP", "Implied"))
      [] high_nibble = 15 -> None

low_nibble_c(high_nibble) ==
    CASE high_nibble = 0 -> None
      [] high_nibble = 1 -> None
      [] high_nibble = 2 -> Some(FullOpcode("BIT", "Absolute"))
      [] high_nibble = 3 -> None
      [] high_nibble = 4 -> Some(FullOpcode("JMP", "Absolute"))
      [] high_nibble = 5 -> None
      [] high_nibble = 6 -> Some(FullOpcode("JMP", "Indirect"))
      [] high_nibble = 7 -> None
      [] high_nibble = 8 -> Some(FullOpcode("STY", "Absolute"))
      [] high_nibble = 9 -> None
      [] high_nibble = 10 -> Some(FullOpcode("LDY", "Absolute"))
      [] high_nibble = 11 -> Some(FullOpcode("LDY", "AbsoluteXIndexed"))
      [] high_nibble = 12 -> Some(FullOpcode("CPY", "Absolute"))
      [] high_nibble = 13 -> None
      [] high_nibble = 14 -> Some(FullOpcode("CPX", "Absolute"))
      [] high_nibble = 15 -> None

low_nibble_d(high_nibble) ==
    CASE high_nibble = 0 -> Some(FullOpcode("ORA", "Absolute"))
      [] high_nibble = 1 -> Some(FullOpcode("ORA", "AbsoluteXIndexed"))
      [] high_nibble = 2 -> Some(FullOpcode("AND", "Absolute"))
      [] high_nibble = 3 -> Some(FullOpcode("AND", "AbsoluteXIndexed"))
      [] high_nibble = 4 -> Some(FullOpcode("EOR", "Absolute"))
      [] high_nibble = 5 -> Some(FullOpcode("EOR", "AbsoluteXIndexed"))
      [] high_nibble = 6 -> Some(FullOpcode("ADC", "Absolute"))
      [] high_nibble = 7 -> Some(FullOpcode("ADC", "AbsoluteXIndexed"))
      [] high_nibble = 8 -> Some(FullOpcode("STA", "Absolute"))
      [] high_nibble = 9 -> Some(FullOpcode("STA", "AbsoluteXIndexed"))
      [] high_nibble = 10 -> Some(FullOpcode("LDA", "Absolute"))
      [] high_nibble = 11 -> Some(FullOpcode("LDA", "AbsoluteXIndexed"))
      [] high_nibble = 12 -> Some(FullOpcode("CMP", "Absolute"))
      [] high_nibble = 13 -> Some(FullOpcode("CMP", "AbsoluteXIndexed"))
      [] high_nibble = 14 -> Some(FullOpcode("SBC", "Absolute"))
      [] high_nibble = 15 -> Some(FullOpcode("SBC", "AbsoluteXIndexed"))

low_nibble_e(high_nibble) ==
    CASE high_nibble = 0 -> Some(FullOpcode("ASL", "Absolute"))
      [] high_nibble = 1 -> Some(FullOpcode("ASL", "AbsoluteXIndexed"))
      [] high_nibble = 2 -> Some(FullOpcode("ROL", "Absolute"))
      [] high_nibble = 3 -> Some(FullOpcode("ROL", "AbsoluteXIndexed"))
      [] high_nibble = 4 -> Some(FullOpcode("LSR", "Absolute"))
      [] high_nibble = 5 -> Some(FullOpcode("LSR", "AbsoluteXIndexed"))
      [] high_nibble = 6 -> Some(FullOpcode("ROR", "Absolute"))
      [] high_nibble = 7 -> Some(FullOpcode("ROR", "AbsoluteXIndexed"))
      [] high_nibble = 8 -> Some(FullOpcode("STX", "Absolute"))
      [] high_nibble = 9 -> None
      [] high_nibble = 10 -> Some(FullOpcode("LDX", "Absolute"))
      [] high_nibble = 11 -> Some(FullOpcode("LDX", "AbsoluteYIndexed"))
      [] high_nibble = 12 -> Some(FullOpcode("DEC", "Absolute"))
      [] high_nibble = 13 -> Some(FullOpcode("DEC", "AbsoluteXIndexed"))
      [] high_nibble = 14 -> Some(FullOpcode("INC", "Absolute"))
      [] high_nibble = 15 -> Some(FullOpcode("INC", "AbsoluteXIndexed"))

try_new(byte) ==
    LET low_nibble  == BitAnd(byte, 15)
        high_nibble == Shr(byte, 4)
    IN  CASE low_nibble = 0 -> low_nibble_0(high_nibble)
          [] low_nibble = 1 -> low_nibble_1(high_nibble)
          [] low_nibble = 2 -> low_nibble_2(high_nibble)
          [] low_nibble = 3 -> None
          [] low_nibble = 4 -> low_nibble_4(high_nibble)
          [] low_nibble = 5 -> low_nibble_5(high_nibble)
          [] low_nibble = 6 -> low_nibble_6(high_nibble)
          [] low_nibble = 7 -> None
          [] low_nibble = 8 -> low_nibble_8(high_nibble)
          [] low_nibble = 9 -> low_nibble_9(high_nibble)
          [] low_nibble = 10 -> low_nibble_a(high_nibble)
          [] low_nibble = 11 -> None
          [] low_nibble = 12 -> low_nibble_c(high_nibble)
          [] low_nibble = 13 -> low_nibble_d(high_nibble)
          [] low_nibble = 14 -> low_nibble_e(high_nibble)
          [] low_nibble = 15 -> None


----------------------------------------------------------------------------
(* Guarded field updates: no statement runs once the call has panicked.    *)

SetA(c, v) == IF c.panic # NoPanic THEN c ELSE [c EXCEPT !.accumulator = v]

SetX(c, v) == IF c.panic # NoPanic THEN c ELSE [c EXCEPT !.x = v]

SetY(c, v) == IF c.panic # NoPanic THEN c ELSE [c EXCEPT !.y = v]

SetS(c, v) == IF c.panic # NoPanic THEN c ELSE [c EXCEPT !.stack_pointer = v]

SetPC(c, v) == IF c.panic # NoPanic THEN c ELSE [c EXCEPT !.program_counter = v]

SetP(c, v) == IF c.panic # NoPanic THEN c ELSE [c EXCEPT !.processor_status = v]

(* What an instruction routine hands back: the Cpu and the cycle count.    *)
Done(c, cycles) == [cpu |-> c, cycles |-> cycles]

(* What an addressing-mode read hands back.  A plain + or - on integers    *)
(* panics in a build with overflow checks and wraps in one without.        *)
Value(value, page_changed) == [value |-> value, page_changed |-> page_changed, panic |-> NoPanic]

Raise(c, r) == IF r.panic = NoPanic THEN c ELSE Panic(c, r.panic)

AddOverflow == "attempt to add with overflow"

SubOverflow == "attempt to subtract with overflow"

handle_invalid_addressing_mode(c) == Done(Panic(c, "Invalid addressing mode"), 0)

(* A conversion that reads the byte as unsigned. *)
twos_compliment_to_unsigned(value) == value

twos_compliment_to_signed(value) ==
    IF Shr(value, 7) # 0
    THEN LET negative == wrapping_add8(BitXor(value, 255), 1)
         IN  IF negative = 128 THEN -128 ELSE -negative
    ELSE value

----------------------------------------------------------------------------
(* Addressing-mode helpers (execution/mod.rs) *)

immediate_read(low_byte) == Value(unwrap(low_byte), FALSE)

zeropage_read(c, low_byte) == Value(read(c, unwrap(low_byte)), FALSE)

zeropage_write(c, low_byte, value) == write(c, unwrap(low_byte), value)

(* zeropage_x_read with the index added in 16 bits: no wrap inside page 0. *)
zeropage_x_read_unwrapped(c, low_byte) == Value(read(c, unwrap(low_byte) + c.x), FALSE)

zeropage_x_read(c, low_byte) == Value(read(c, wrapping_add8(unwrap(low_byte), c.x)), FALSE)

zeropage_x_write(c, low_byte, value) == write(c, wrapping_add8(unwrap(low_byte), c.x), value)

zeropage_y_read(c, low_byte) == Value(read(c, wrapping_add8(unwrap(low_byte), c.y)), FALSE)

zeropage_y_write(c, low_byte, value) == write(c, wrapping_add8(unwrap(low_byte), c.y), value)

absolute_read(c, low_byte, high_byte) ==
    Value(read(c, pack_bytes_wrapped(low_byte, high_byte)), FALSE)

absolute_write(c, low_byte, high_byte, value) ==
    write(c, pack_bytes_wrapped(low_byte, high_byte), value)

(* absolute_x_read that never reports a page crossing. *)
absolute_x_read_same_page(c, low_byte, high_byte) ==
    Value(read(c, wrapping_add16(pack_bytes_wrapped(low_byte, high_byte), c.x)), FALSE)

absolute_x_read(c, low_byte, high_byte) ==
    LET pre_add_address == pack_bytes_wrapped(low_byte, high_byte)
        address         == wrapping_add16(pre_add_address, c.x)
        page_changed    == unwrap(low_byte) + c.x > 255
    IN  Value(read(c, address), page_changed)

absolute_x_write(c, low_byte, high_byte, value) ==
    LET pre_add_address == pack_bytes_wrapped(low_byte, high_byte)
        address         == wrapping_add16(pre_add_address, c.x)
    IN  write(c, address, value)

absolute_y_read(c, low_byte, high_byte) ==
    LET pre_add_address == pack_bytes_wrapped(low_byte, high_byte)
        address         == wrapping_add16(pre_add_address, c.y)
        page_changed    == unwrap(low_byte) + c.y > 255
    IN  Value(read(c, address), page_changed)

absolute_y_write(c, low_byte, high_byte, value) ==
    LET pre_add_address == pack_bytes_wrapped(low_byte, high_byte)
        address         == wrapping_add16(pre_add_address, c.y)
    IN  write(c, address, value)

indirect_x_address(c, low_byte) ==
    LET base_address == wrapping_add8(unwrap(low_byte), c.x)
    IN  pack_bytes(read(c, base_address), read(c, base_address + 1))

indirect_x_read(c, low_byte) == Value(read(c, indirect_x_address(c, low_byte)), FALSE)

indirect_x_write(c, low_byte, value) == write(c, indirect_x_address(c, low_byte), value)

(* pack_bytes(..) + cpu.y is a plain u16 addition. *)
indirect_y_sum(c, low_byte) ==
    LET low_base_address  == unwrap(low_byte)
        high_base_address == wrapping_add8(unwrap(low_byte), 1)
    IN  pack_bytes(read(c, low_base_address), read(c, high_base_address)) + c.y

indirect_y_read(c, low_byte) ==
    LET low_base_address  == unwrap(low_byte)
        high_base_address == wrapping_add8(unwrap(low_byte), 1)
        page_changed      == low_base_address > high_base_address
        sum               == indirect_y_sum(c, low_byte)
    IN  IF sum > 65535 /\ overflow_checks
        THEN [value |-> 0, page_changed |-> page_changed, panic |-> AddOverflow]
        ELSE Value(read(c, sum % 65536), page_changed)

indirect_y_write(c, low_byte, value) ==
    LET sum == indirect_y_sum(c, low_byte)
    IN  IF sum > 65535 /\ overflow_checks
        THEN Panic(c, AddOverflow)
        ELSE write(c, sum % 65536, value)

----------------------------------------------------------------------------
(* system.rs: BRK / interrupt entry, NOP, RTI *)

InterruptStates == {"Inactive", "Reset", "MaskableInterrupt", "NonMaskableInterrupt"}

(* A vector table with the Reset and NMI entries exchanged. *)
BrkVector_exchanged(interrupt_state) ==
    CASE interrupt_state \in {"Inactive", "MaskableInterrupt"} -> IRQ_BRK_VECTOR_ADDRESS
      [] interrupt_state = "Reset" -> NMI_VECTOR_ADDRESS
      [] interrupt_state = "NonMaskableInterrupt" -> RESET_VECTOR_ADDRESS

BrkVector(interrupt_state) ==
    CASE interrupt_state \in {"Inactive", "MaskableInterrupt"} -> IRQ_BRK_VECTOR_ADDRESS
      [] interrupt_state = "Reset" -> RESET_VECTOR_ADDRESS
      [] interrupt_state = "NonMaskableInterrupt" -> NMI_VECTOR_ADDRESS

(* An interrupt entry that sets I before it pushes P. *)
instruction_brk_masked_first(c, interrupt_state) ==
    LET c1 == push(c, unpack_high(c.program_counter))
        c2 == set_interrupt_disable_flag(push(c1, unpack_low(c.program_counter)))
        c3 == push(c2, c2.processor_status)
        c4 == SetPC(c3, pack_bytes(read(c3, BrkVector(interrupt_state)),
                                   read(c3, BrkVector(interrupt_state) + 1)))
    IN  Done(c4, 7)

instruction_brk(c, interrupt_state) ==
    LET pc_low  == unpack_low(c.program_counter)
        pc_high == unpack_high(c.program_counter)
        c1 == push(c, pc_high)
        c2 == push(c1, pc_low)
        c3 == IF interrupt_state = "Inactive" \/ interrupt_state = "Reset"
              THEN set_break_flag(c2) ELSE c2
        c4 == push(c3, c3.processor_status)
        c5 == IF interrupt_state = "Inactive" \/ interrupt_state = "Reset"
              THEN clear_break_flag(c4) ELSE c4
        c6 == set_interrupt_disable_flag(c5)
        c7 == SetPC(c6, pack_bytes(read(c6, BrkVector(interrupt_state)),
                                   read(c6, BrkVector(interrupt_state) + 1)))
    IN  Done(c7, 7)

instruction_nop(c) == Done(c, 2)

(* An RTI that takes all eight bits of P from the stack. *)
instruction_rti_unmasked(c) ==
    LET c1 == SetP(pop_cpu(c), pop_byte(c))
        pc_low  == pop_byte(c1)
        c2 == pop_cpu(c1)
        pc_high == pop_byte(c2)
        c3 == pop_cpu(c2)
    IN  Done(SetPC(c3, pack_bytes(pc_low, pc_high)), 6)

instruction_rti(c) ==
    LET c1 == SetP(pop_cpu(c), BitOr(BitAnd(pop_byte(c), \h00CF),
                                     BitAnd(c.processor_status, \h0030)))
        pc_low  == pop_byte(c1)
        c2 == pop_cpu(c1)
        pc_high == pop_byte(c2)
        c3 == pop_cpu(c2)
    IN  Done(SetPC(c3, pack_bytes(pc_low, pc_high)), 6)

----------------------------------------------------------------------------
(* stack.rs *)

instruction_tsx(c) ==
    LET c1 == SetX(c, c.stack_pointer)
    IN  Done(modify_negative_flag(modify_zero_flag(c1, c1.x), c1.x), 2)

(* A TXS that sets Z and N from the byte it copies, as the other transfers do. *)
instruction_txs_flagged(c) ==
    Done(modify_negative_flag(modify_zero_flag(SetS(c, c.x), c.x), c.x), 2)

instruction_txs(c) == Done(SetS(c, c.x), 2)

instruction_pha(c) == Done(push(c, c.accumulator), 3)

instruction_php(c) ==
    LET c1 == set_break_flag(c)
        c2 == push(c1, c1.processor_status)
    IN  Done(clear_break_flag(c2), 3)

instruction_pla(c) ==
    LET c1 == SetA(pop_cpu(c), pop_byte(c))
    IN  Done(modify_negative_flag(modify_zero_flag(c1, c1.accumulator), c1.accumulator), 4)

(* A PLP that keeps only bit 4 of the live P and takes bit 5 from the stack. *)
instruction_plp_keeping_break(c) ==
    Done(SetP(pop_cpu(c), BitOr(BitAnd(pop_byte(c), \h00EF),
                                BitAnd(c.processor_status, \h0010))), 4)

instruction_plp(c) ==
    LET original_flags == BitAnd(c.processor_status, \h0030)
    IN  Done(SetP(pop_cpu(c), BitOr(BitAnd(pop_byte(c), \h00CF), original_flags)), 4)

----------------------------------------------------------------------------
(* jumps_calls.rs *)

(* A JMP whose indirect read always takes the high byte from p + 1. *)
instruction_jmp_next_page(c, addressing_mode, low_byte, high_byte) ==
    CASE addressing_mode = "Absolute" ->
           Done(SetPC(c, pack_bytes_wrapped(low_byte, high_byte)), 3)
      [] addressing_mode = "Indirect" ->
           LET base_address == pack_bytes_wrapped(low_byte, high_byte)
           IN  Done(SetPC(c, pack_bytes(read(c, base_address),
                                        read(c, wrapping_add16(base_address, 1)))),
                    5)
      [] OTHER -> handle_invalid_addressing_mode(c)

instruction_jmp(c, addressing_mode, low_byte, high_byte) ==
    CASE addressing_mode = "Absolute" ->
           Done(SetPC(c, pack_bytes_wrapped(low_byte, high_byte)), 3)
      [] addressing_mode = "Indirect" ->
           LET base_address == pack_bytes_wrapped(low_byte, high_byte)
           IN  Done(SetPC(c, IF BitAnd(base_address, \h00FF) = \h00FF
                             THEN pack_bytes(read(c, base_address), read(c, base_address - \h00FF))
                             ELSE pack_bytes(read(c, base_address), read(c, base_address + 1))),
                    5)
      [] OTHER -> handle_invalid_addressing_mode(c)

(* self.program_counter - 1 is a plain u16 subtraction. *)
instruction_jsr(c, low_byte, high_byte) ==
    LET subroutine_address == pack_bytes_wrapped(low_byte, high_byte)
        underflow == c.program_counter - 1 < 0
        return_address == wrapping_sub16(c.program_counter, 1)
        c0 == IF underflow /\ overflow_checks THEN Panic(c, SubOverflow) ELSE c
        c1 == push(c0, unpack_high(return_address))
        c2 == push(c1, unpack_low(return_address))
    IN  Done(SetPC(c2, subroutine_address), 6)

(* pack_bytes(pc_low, pc_high) + 1 is a plain u16 addition. *)
instruction_rts(c) ==
    LET pc_low  == pop_byte(c)
        c1 == pop_cpu(c)
        pc_high == pop_byte(c1)
        c2 == pop_cpu(c1)
        sum == pack_bytes(pc_low, pc_high) + 1
        c3 == IF sum > 65535 /\ overflow_checks THEN Panic(c2, AddOverflow) ELSE c2
    IN  Done(SetPC(c3, sum % 65536), 6)

----------------------------------------------------------------------------
(* branches.rs *)

branch(c, low_byte, needs_branch) ==
    LET value == twos_compliment_to_signed(unwrap(low_byte))
        original_page == Shr(c.program_counter, 8)
        c1 == IF needs_branch
              THEN IF value > 0
                   THEN SetPC(c, wrapping_add16(c.program_counter, value))
                   ELSE SetPC(c, wrapping_sub16(c.program_counter, -value))
              ELSE c
        new_page == Shr(c1.program_counter, 8)
        page_crossed == original_page # new_page
    IN  Done(c1, IF needs_branch THEN (IF page_crossed THEN 4 ELSE 3) ELSE 2)

instruction_bcc(c, low_byte) == branch(c, low_byte, ~carry_flag(c))

instruction_bcs(c, low_byte) == branch(c, low_byte, carry_flag(c))

instruction_beq(c, low_byte) == branch(c, low_byte, zero_flag(c))

instruction_bmi(c, low_byte) == branch(c, low_byte, negative_flag(c))

instruction_bne(c, low_byte) == branch(c, low_byte, ~zero_flag(c))

instruction_bpl(c, low_byte) == branch(c, low_byte, ~negative_flag(c))

instruction_bvc(c, low_byte) == branch(c, low_byte, ~overflow_flag(c))

instruction_bvs(c, low_byte) == branch(c, low_byte, overflow_flag(c))

----------------------------------------------------------------------------
(* arithmetic.rs *)

(* An ADC that leaves the carry flag out of the sum. *)
adc_intermediate_without_carry(c, value) ==
    IF c.panic # NoPanic THEN c
    ELSE LET same_sign    == Shr(c.accumulator, 7) = Shr(value, 7)
             carry_needed == value + c.accumulator > 255
             c2 == SetA(c, wrapping_add8(c.accumulator, value))
             c3 == IF carry_needed THEN set_carry_flag(c2) ELSE clear_carry_flag(c2)
             c4 == IF same_sign /\ Shr(c3.accumulator, 7) # Shr(c.accumulator, 7)
                   THEN set_overflow_flag(c3)
                   ELSE clear_overflow_flag(c3)
         IN  modify_negative_flag(modify_zero_flag(c4, c4.accumulator), c4.accumulator)

adc_intermediate(c, value) ==
    IF c.panic # NoPanic THEN c
    ELSE LET same_sign    == Shr(c.accumulator, 7) = Shr(value, 7)
             shared_sign  == IF same_sign THEN Some(Shr(c.accumulator, 7)) ELSE None
             carry_in     == IF carry_flag(c) THEN 1 ELSE 0
             carry_needed == value + c.accumulator + carry_in > 255
             c1 == SetA(c, wrapping_add8(c.accumulator, value))
             c2 == SetA(c1, wrapping_add8(c1.accumulator, carry_in))
             c3 == IF carry_needed THEN set_carry_flag(c2) ELSE clear_carry_flag(c2)
             c4 == IF shared_sign # None
                   THEN IF Shr(c3.accumulator, 7) = unwrap(shared_sign)
                        THEN clear_overflow_flag(c3)
                        ELSE set_overflow_flag(c3)
                   ELSE clear_overflow_flag(c3)
         IN  modify_negative_flag(modify_zero_flag(c4, c4.accumulator), c4.accumulator)

(* An SBC that adds the two's complement of its operand. *)
sbc_intermediate_negated(c, value) == adc_intermediate(c, wrapping_sub8(0, value))

sbc_intermediate(c, value) == adc_intermediate(c, BitXor(value, \h00FF))

(* A compare whose carry means strictly greater. *)
compare_strict(c, register, value) ==
    LET compared_value == wrapping_sub8(register, value)
        c1 == IF register > value THEN set_carry_flag(c) ELSE clear_carry_flag(c)
    IN  modify_negative_flag(modify_zero_flag(c1, compared_value), compared_value)

compare(c, register, value) ==
    LET compared_value == wrapping_sub8(register, value)
        c1 == IF register >= value THEN set_carry_flag(c) ELSE clear_carry_flag(c)
    IN  modify_negative_flag(modify_zero_flag(c1, compared_value), compared_value)

cmp_intermediate(c, value) == compare(c, c.accumulator, value)

cpx_intermediate(c, value) == compare(c, c.x, value)

cpy_intermediate(c, value) == compare(c, c.y, value)

instruction_adc(c, addressing_mode, low_byte, high_byte) ==
    CASE addressing_mode = "Immediate" ->
           LET r == immediate_read(low_byte)
           IN  Done(adc_intermediate(Raise(c, r), r.value), 2)
      [] addressing_mode = "Zeropage" ->
           LET r == zeropage_read(c, low_byte)
           IN  Done(adc_intermediate(Raise(c, r), r.value), 3)
      [] addressing_mode = "ZeropageXIndexed" ->
           LET r == zeropage_x_read(c, low_byte)
           IN  Done(adc_intermediate(Raise(c, r), r.value), 4)
      [] addressing_mode = "Absolute" ->
           LET r == absolute_read(c, low_byte, high_byte)
           IN  Done(adc_intermediate(Raise(c, r), r.value), 4)
      [] addressing_mode = "AbsoluteXIndexed" ->
           LET r == absolute_x_read(c, low_byte, high_byte)
           IN  Done(adc_intermediate(Raise(c, r), r.value), IF r.page_changed THEN 5 ELSE 4)
      [] addressing_mode = "AbsoluteYIndexed" ->
           LET r == absolute_y_read(c, low_byte, high_byte)
           IN  Done(adc_intermediate(Raise(c, r), r.value), IF r.page_changed THEN 5 ELSE 4)
      [] addressing_mode = "IndirectXIndexed" ->
           LET r == indirect_x_read(c, low_byte)
           IN  Done(adc_intermediate(Raise(c, r), r.value), 6)
      [] addressing_mode = "IndirectYIndexed" ->
           LET r == indirect_y_read(c, low_byte)
           IN  Done(adc_intermediate(Raise(c, r), r.value), IF r.page_changed THEN 6 ELSE 5)
      [] OTHER -> handle_invalid_addressing_mode(c)

instruction_sbc(c, addressing_mode, low_byte, high_byte) ==
    CASE addressing_mode = "Immediate" ->
           LET r == immediate_read(low_byte)
           IN  Done(sbc_intermediate(Raise(c, r), r.value), 2)
      [] addressing_mode = "Zeropage" ->
           LET r == zeropage_read(c, low_byte)
           IN  Done(sbc_intermediate(Raise(c, r), r.value), 3)
      [] addressing_mode = "ZeropageXIndexed" ->
           LET r == zeropage_x_read(c, low_byte)
           IN  Done(sbc_intermediate(Raise(c, r), r.value), 4)
      [] addressing_mode = "Absolute" ->
           LET r == absolute_read(c, low_byte, high_byte)
           IN  Done(sbc_intermediate(Raise(c, r), r.value), 4)
      [] addressing_mode = "AbsoluteXIndexed" ->
           LET r == absolute_x_read(c, low_byte, high_byte)
           IN  Done(sbc_intermediate(Raise(c, r), r.value), IF r.page_changed THEN 5 ELSE 4)
      [] addressing_mode = "AbsoluteYIndexed" ->
           LET r == absolute_y_read(c, low_byte, high_byte)
           IN  Done(sbc_intermediate(Raise(c, r), r.value), IF r.page_changed THEN 5 ELSE 4)
      [] addressing_mode = "IndirectXIndexed" ->
           LET r == indirect_x_read(c, low_byte)
           IN  Done(sbc_intermediate(Raise(c, r), r.value), 6)
      [] addressing_mode = "IndirectYIndexed" ->
           LET r == indirect_y_read(c, low_byte)
           IN  Done(sbc_intermediate(Raise(c, r), r.value), IF r.page_changed THEN 6 ELSE 5)
      [] OTHER -> handle_invalid_addressing_mode(c)

instruction_cmp(c, addressing_mode, low_byte, high_byte) ==
    CASE addressing_mode = "Immediate" ->
           LET r == immediate_read(low_byte)
           IN  Done(cmp_intermediate(Raise(c, r), r.value), 2)
      [] addressing_mode = "Zeropage" ->
           LET r == zeropage_read(c, low_byte)
           IN  Done(cmp_intermediate(Raise(c, r), r.value), 3)
      [] addressing_mode = "ZeropageXIndexed" ->
           LET r == zeropage_x_read(c, low_byte)
           IN  Done(cmp_intermediate(Raise(c, r), r.value), 4)
      [] addressing_mode = "Absolute" ->
           LET r == absolute_read(c, low_byte, high_byte)
           IN  Done(cmp_intermediate(Raise(c, r), r.value), 4)
      [] addressing_mode = "AbsoluteXIndexed" ->
           LET r == absolute_x_read(c, low_byte, high_byte)
           IN  Done(cmp_intermediate(Raise(c, r), r.value), IF r.page_changed THEN 5 ELSE 4)
      [] addressing_mode = "AbsoluteYIndexed" ->
           LET r == absolute_y_read(c, low_byte, high_byte)
           IN  Done(cmp_intermediate(Raise(c, r), r.value), IF r.page_changed THEN 5 ELSE 4)
      [] addressing_mode = "IndirectXIndexed" ->
           LET r == indirect_x_read(c, low_byte)
           IN  Done(cmp_intermediate(Raise(c, r), r.value), 6)
      [] addressing_mode = "IndirectYIndexed" ->
           LET r == indirect_y_read(c, low_byte)
           IN  Done(cmp_intermediate(Raise(c, r), r.value), IF r.page_changed THEN 6 ELSE 5)
      [] OTHER -> handle_invalid_addressing_mode(c)

instruction_cpx(c, addressing_mode, low_byte, high_byte) ==
    CASE addressing_mode = "Immediate" ->
           LET r == immediate_read(low_byte)
           IN  Done(cpx_intermediate(Raise(c, r), r.value), 2)
      [] addressing_mode = "Zeropage" ->
           LET r == zeropage_read(c, low_byte)
           IN  Done(cpx_intermediate(Raise(c, r), r.value), 3)
      [] addressing_mode = "ZeropageXIndexed" ->
           LET r == zeropage_x_read(c, low_byte)
           IN  Done(cpx_intermediate(Raise(c, r), r.value), 4)
      [] addressing_mode = "Absolute" ->
           LET r == absolute_read(c, low_byte, high_byte)
           IN  Done(cpx_intermediate(Raise(c, r), r.value), 4)
      [] addressing_mode = "AbsoluteXIndexed" ->
           LET r == absolute_x_read(c, low_byte, high_byte)
           IN  Done(cpx_intermediate(Raise(c, r), r.value), IF r.page_changed THEN 5 ELSE 4)
      [] addressing_mode = "AbsoluteYIndexed" ->
           LET r == absolute_y_read(c, low_byte, high_byte)
           IN  Done(cpx_intermediate(Raise(c, r), r.value), IF r.page_changed THEN 5 ELSE 4)
      [] addressing_mode = "IndirectXIndexed" ->
           LET r == indirect_x_read(c, low_byte)
           IN  Done(cpx_intermediate(Raise(c, r), r.value), 6)
      [] addressing_mode = "IndirectYIndexed" ->
           LET r == indirect_y_read(c, low_byte)
           IN  Done(cpx_intermediate(Raise(c, r), r.value), IF r.page_changed THEN 6 ELSE 5)
      [] OTHER -> handle_invalid_addressing_mode(c)

instruction_cpy(c, addressing_mode, low_byte, high_byte) ==
    CASE addressing_mode = "Immediate" ->
           LET r == immediate_read(low_byte)
           IN  Done(cpy_intermediate(Raise(c, r), r.value), 2)
      [] addressing_mode = "Zeropage" ->
           LET r == zeropage_read(c, low_byte)
           IN  Done(cpy_intermediate(Raise(c, r), r.value), 3)
      [] addressing_mode = "ZeropageXIndexed" ->
           LET r == zeropage_x_read(c, low_byte)
           IN  Done(cpy_intermediate(Raise(c, r), r.value), 4)
      [] addressing_mode = "Absolute" ->
           LET r == absolute_read(c, low_byte, high_byte)
           IN  Done(cpy_intermediate(Raise(c, r), r.value), 4)
      [] addressing_mode = "AbsoluteXIndexed" ->
           LET r == absolute_x_read(c, low_byte, high_byte)
           IN  Done(cpy_intermediate(Raise(c, r), r.value), IF r.page_changed THEN 5 ELSE 4)
      [] addressing_mode = "AbsoluteYIndexed" ->
           LET r == absolute_y_read(c, low_byte, high_byte)
           IN  Done(cpy_intermediate(Raise(c, r), r.value), IF r.page_changed THEN 5 ELSE 4)
      [] addressing_mode = "IndirectXIndexed" ->
           LET r == indirect_x_read(c, low_byte)
           IN  Done(cpy_intermediate(Raise(c, r), r.value), 6)
      [] addressing_mode = "IndirectYIndexed" ->
           LET r == indirect_y_read(c, low_byte)
           IN  Done(cpy_intermediate(Raise(c, r), r.value), IF r.page_changed THEN 6 ELSE 5)
      [] OTHER -> handle_invalid_addressing_mode(c)

----------------------------------------------------------------------------
(* load_store.rs *)

lda_load(c, value) == modify_zero_flag(modify_negative_flag(SetA(c, value), value), value)

ldx_load(c, value) == modify_zero_flag(modify_negative_flag(SetX(c, value), value), value)

ldy_load(c, value) == modify_zero_flag(modify_negative_flag(SetY(c, value), value), value)

instruction_lda(c, addressing_mode, low_byte, high_byte) ==
    CASE addressing_mode = "Immediate" ->
           LET r == immediate_read(low_byte)
           IN  Done(lda_load(Raise(c, r), r.value), 2)
      [] addressing_mode = "Zeropage" ->
           LET r == zeropage_read(c, low_byte)
           IN  Done(lda_load(Raise(c, r), r.value), 3)
      [] addressing_mode = "ZeropageXIndexed" ->
           LET r == zeropage_x_read(c, low_byte)
           IN  Done(lda_load(Raise(c, r), r.value), 4)
      [] addressing_mode = "Absolute" ->
           LET r == absolute_read(c, low_byte, high_byte)
           IN  Done(lda_load(Raise(c, r), r.value), 4)
      [] addressing_mode = "AbsoluteXIndexed" ->
           LET r == absolute_x_read(c, low_byte, high_byte)
           IN  Done(lda_load(Raise(c, r), r.value), IF r.page_changed THEN 5 ELSE 4)
      [] addressing_mode = "AbsoluteYIndexed" ->
           LET r == absolute_y_read(c, low_byte, high_byte)
           IN  Done(lda_load(Raise(c, r), r.value), IF r.page_changed THEN 5 ELSE 4)
      [] addressing_mode = "IndirectXIndexed" ->
           LET r == indirect_x_read(c, low_byte)
           IN  Done(lda_load(Raise(c, r), r.value), 6)
      [] addressing_mode = "IndirectYIndexed" ->
           LET r == indirect_y_read(c, low_byte)
           IN  Done(lda_load(Raise(c, r), r.value), IF r.page_changed THEN 6 ELSE 5)
      [] OTHER -> handle_invalid_addressing_mode(c)

instruction_ldx(c, addressing_mode0, low_byte, high_byte) ==
    LET addressing_mode == IF addressing_mode0 = "ZeropageXIndexed"
                           THEN "ZeropageYIndexed" ELSE addressing_mode0
    IN
    CASE addressing_mode = "Immediate" ->
           LET r == immediate_read(low_byte)
           IN  Done(ldx_load(Raise(c, r), r.value), 2)
      [] addressing_mode = "Zeropage" ->
           LET r == zeropage_read(c, low_byte)
           IN  Done(ldx_load(Raise(c, r), r.value), 3)
      [] addressing_mode = "ZeropageYIndexed" ->
           LET r == zeropage_y_read(c, low_byte)
           IN  Done(ldx_load(Raise(c, r), r.value), 4)
      [] addressing_mode = "Absolute" ->
           LET r == absolute_read(c, low_byte, high_byte)
           IN  Done(ldx_load(Raise(c, r), r.value), 4)
      [] addressing_mode = "AbsoluteYIndexed" ->
           LET r == absolute_y_read(c, low_byte, high_byte)
           IN  Done(ldx_load(Raise(c, r), r.value), IF r.page_changed THEN 5 ELSE 4)
      [] OTHER -> handle_invalid_addressing_mode(c)

instruction_ldy(c, addressing_mode, low_byte, high_byte) ==
    CASE addressing_mode = "Immediate" ->
           LET r == immediate_read(low_byte)
           IN  Done(ldy_load(Raise(c, r), r.value), 2)
      [] addressing_mode = "Zeropage" ->
           LET r == zeropage_read(c, low_byte)
           IN  Done(ldy_load(Raise(c, r), r.value), 3)
      [] addressing_mode = "ZeropageXIndexed" ->
           LET r == zeropage_x_read(c, low_byte)
           IN  Done(ldy_load(Raise(c, r), r.value), 4)
      [] addressing_mode = "Absolute" ->
           LET r == absolute_read(c, low_byte, high_byte)
           IN  Done(ldy_load(Raise(c, r), r.value), 4)
      [] addressing_mode = "AbsoluteXIndexed" ->
           LET r == absolute_x_read(c, low_byte, high_byte)
           IN  Done(ldy_load(Raise(c, r), r.value), IF r.page_changed THEN 5 ELSE 4)
      [] OTHER -> handle_invalid_addressing_mode(c)

instruction_sta(c, addressing_mode, low_byte, high_byte) ==
    CASE addressing_mode = "Zeropage" -> Done(zeropage_write(c, low_byte, c.accumulator), 3)
      [] addressing_mode = "ZeropageXIndexed" -> Done(zeropage_x_write(c, low_byte, c.accumulator), 4)
      [] addressing_mode = "Absolute" -> Done(absolute_write(c, low_byte, high_byte, c.accumulator), 4)
      [] addressing_mode = "AbsoluteXIndexed" -> Done(absolute_x_write(c, low_byte, high_byte, c.accumulator), 5)
      [] addressing_mode = "AbsoluteYIndexed" -> Done(absolute_y_write(c, low_byte, high_byte, c.accumulator), 5)
      [] addressing_mode = "IndirectXIndexed" -> Done(indirect_x_write(c, low_byte, c.accumulator), 6)
      [] addressing_mode = "IndirectYIndexed" -> Done(indirect_y_write(c, low_byte, c.accumulator), 6)
      [] OTHER -> handle_invalid_addressing_mode(c)

(* An STX that takes the decoded addressing mode as it comes. *)
instruction_stx_unpatched(c, addressing_mode, low_byte, high_byte) ==
    CASE addressing_mode = "Zeropage" -> Done(zeropage_write(c, low_byte, c.x), 3)
      [] addressing_mode = "ZeropageYIndexed" -> Done(zeropage_y_write(c, low_byte, c.x), 4)
      [] addressing_mode = "Absolute" -> Done(absolute_write(c, low_byte, high_byte, c.x), 4)
      [] OTHER -> handle_invalid_addressing_mode(c)

instruction_stx(c, addressing_mode0, low_byte, high_byte) ==
    LET addressing_mode == IF addressing_mode0 = "ZeropageXIndexed"
                           THEN "ZeropageYIndexed" ELSE addressing_mode0
    IN
    CASE addressing_mode = "Zeropage" -> Done(zeropage_write(c, low_byte, c.x), 3)
      [] addressing_mode = "ZeropageYIndexed" -> Done(zeropage_y_write(c, low_byte, c.x), 4)
      [] addressing_mode = "Absolute" -> Done(absolute_write(c, low_byte, high_byte, c.x), 4)
      [] OTHER -> handle_invalid_addressing_mode(c)

instruction_sty(c, addressing_mode, low_byte, high_byte) ==
    CASE addressing_mode = "Zeropage" -> Done(zeropage_write(c, low_byte, c.y), 3)
      [] addressing_mode = "ZeropageXIndexed" -> Done(zeropage_x_write(c, low_byte, c.y), 4)
      [] addressing_mode = "Absolute" -> Done(absolute_write(c, low_byte, high_byte, c.y), 4)
      [] OTHER -> handle_invalid_addressing_mode(c)

----------------------------------------------------------------------------
(* shifts.rs: each arm sets the carry from the bit shifted out, shifts,    *)
(* sets N and Z from the result and stores it where it was read.           *)

Shifted(c, value) == [cpu |-> c, value |-> value]

asl_shift(c, value) ==
    LET c1 == IF BitAnd(value, 128) # 0 THEN set_carry_flag(c) ELSE clear_carry_flag(c)
        v  == Shl8(value)
    IN  Shifted(modify_zero_flag(modify_negative_flag(c1, v), v), v)

(* A shift right that takes the carry from bit 7. *)
lsr_shift_high_carry(c, value) ==
    LET c1 == IF BitAnd(value, 128) # 0 THEN set_carry_flag(c) ELSE clear_carry_flag(c)
        v  == Shr(value, 1)
    IN  Shifted(modify_zero_flag(modify_negative_flag(c1, v), v), v)

lsr_shift(c, value) ==
    LET c1 == IF BitAnd(value, 1) # 0 THEN set_carry_flag(c) ELSE clear_carry_flag(c)
        v  == Shr(value, 1)
    IN  Shifted(modify_zero_flag(modify_negative_flag(c1, v), v), v)

(* A rotate left that shifts in the new carry, not the old one. *)
rol_shift_new_carry(c, value) ==
    LET c1 == IF BitAnd(value, 128) # 0 THEN set_carry_flag(c) ELSE clear_carry_flag(c)
        v  == BitOr(Shl8(value), IF carry_flag(c1) THEN 1 ELSE 0)
    IN  Shifted(modify_zero_flag(modify_negative_flag(c1, v), v), v)

rol_shift(c, value) ==
    LET old_carry_flag == IF carry_flag(c) THEN 1 ELSE 0
        c1 == IF BitAnd(value, 128) # 0 THEN set_carry_flag(c) ELSE clear_carry_flag(c)
        v  == BitOr(Shl8(value), old_carry_flag)
    IN  Shifted(modify_zero_flag(modify_negative_flag(c1, v), v), v)

ror_shift(c, value) ==
    LET old_carry_flag == IF carry_flag(c) THEN 1 ELSE 0
        c1 == IF BitAnd(value, 1) # 0 THEN set_carry_flag(c) ELSE clear_carry_flag(c)
        v  == BitOr(Shr(value, 1), old_carry_flag * 128)
    IN  Shifted(modify_negative_flag(modify_zero_flag(c1, v), v), v)

instruction_asl(c, addressing_mode, low_byte, high_byte) ==
    CASE addressing_mode = "Accumulator" ->
           LET s == asl_shift(c, c.accumulator)
           IN  Done(SetA(s.cpu, s.value), 2)
      [] addressing_mode = "Zeropage" ->
           LET r == zeropage_read(c, low_byte)
               s == asl_shift(c, r.value)
           IN  Done(zeropage_write(s.cpu, low_byte, s.value), 5)
      [] addressing_mode = "ZeropageXIndexed" ->
           LET r == zeropage_x_read(c, low_byte)
               s == asl_shift(c, r.value)
           IN  Done(zeropage_x_write(s.cpu, low_byte, s.value), 6)
      [] addressing_mode = "Absolute" ->
           LET r == absolute_read(c, low_byte, high_byte)
               s == asl_shift(c, r.value)
           IN  Done(absolute_write(s.cpu, low_byte, high_byte, s.value), 6)
      [] addressing_mode = "AbsoluteXIndexed" ->
           LET r == absolute_x_read(c, low_byte, high_byte)
               s == asl_shift(c, r.value)
           IN  Done(absolute_x_write(s.cpu, low_byte, high_byte, s.value), 7)
      [] OTHER -> handle_invalid_addressing_mode(c)

instruction_lsr(c, addressing_mode, low_byte, high_byte) ==
    CASE addressing_mode = "Accumulator" ->
           LET s == lsr_shift(c, c.accumulator)
           IN  Done(SetA(s.cpu, s.value), 2)
      [] addressing_mode = "Zeropage" ->
           LET r == zeropage_read(c, low_byte)
               s == lsr_shift(c, r.value)
           IN  Done(zeropage_write(s.cpu, low_byte, s.value), 5)
      [] addressing_mode = "ZeropageXIndexed" ->
           LET r == zeropage_x_read(c, low_byte)
               s == lsr_shift(c, r.value)
           IN  Done(zeropage_x_write(s.cpu, low_byte, s.value), 6)
      [] addressing_mode = "Absolute" ->
           LET r == absolute_read(c, low_byte, high_byte)
               s == lsr_shift(c, r.value)
           IN  Done(absolute_write(s.cpu, low_byte, high_byte, s.value), 6)
      [] addressing_mode = "AbsoluteXIndexed" ->
           LET r == absolute_x_read(c, low_byte, high_byte)
               s == lsr_shift(c, r.value)
           IN  Done(absolute_x_write(s.cpu, low_byte, high_byte, s.value), 7)
      [] OTHER -> handle_invalid_addressing_mode(c)

instruction_rol(c, addressing_mode, low_byte, high_byte) ==
    CASE addressing_mode = "Accumulator" ->
           LET s == rol_shift(c, c.accumulator)
           IN  Done(SetA(s.cpu, s.value), 2)
      [] addressing_mode = "Zeropage" ->
           LET r == zeropage_read(c, low_byte)
               s == rol_shift(c, r.value)
           IN  Done(zeropage_write(s.cpu, low_byte, s.value), 5)
      [] addressing_mode = "ZeropageXIndexed" ->
           LET r == zeropage_x_read(c, low_byte)
               s == rol_shift(c, r.value)
           IN  Done(zeropage_x_write(s.cpu, low_byte, s.value), 6)
      [] addressing_mode = "Absolute" ->
           LET r == absolute_read(c, low_byte, high_byte)
               s == rol_shift(c, r.value)
           IN  Done(absolute_write(s.cpu, low_byte, high_byte, s.value), 6)
      [] addressing_mode = "AbsoluteXIndexed" ->
           LET r == absolute_x_read(c, low_byte, high_byte)
               s == rol_shift(c, r.value)
           IN  Done(absolute_x_write(s.cpu, low_byte, high_byte, s.value), 7)
      [] OTHER -> handle_invalid_addressing_mode(c)

instruction_ror(c, addressing_mode, low_byte, high_byte) ==
    CASE addressing_mode = "Accumulator" ->
           LET s == ror_shift(c, c.accumulator)
           IN  Done(SetA(s.cpu, s.value), 2)
      [] addressing_mode = "Zeropage" ->
           LET r == zeropage_read(c, low_byte)
               s == ror_shift(c, r.value)
           IN  Done(zeropage_write(s.cpu, low_byte, s.value), 5)
      [] addressing_mode = "ZeropageXIndexed" ->
           LET r == zeropage_x_read(c, low_byte)
               s == ror_shift(c, r.value)
           IN  Done(zeropage_x_write(s.cpu, low_byte, s.value), 6)
      [] addressing_mode = "Absolute" ->
           LET r == absolute_read(c, low_byte, high_byte)
               s == ror_shift(c, r.value)
           IN  Done(absolute_write(s.cpu, low_byte, high_byte, s.value), 6)
      [] addressing_mode = "AbsoluteXIndexed" ->
           LET r == absolute_x_read(c, low_byte, high_byte)
               s == ror_shift(c, r.value)
           IN  Done(absolute_x_write(s.cpu, low_byte, high_byte, s.value), 7)
      [] OTHER -> handle_invalid_addressing_mode(c)

----------------------------------------------------------------------------
(* incr_decr.rs *)

inc_value(c, value) ==
    LET v == wrapping_add8(value, 1)
    IN  Shifted(modify_negative_flag(modify_zero_flag(c, v), v), v)

dec_value(c, value) ==
    LET v == wrapping_sub8(value, 1)
    IN  Shifted(modify_negative_flag(modify_zero_flag(c, v), v), v)

instruction_inc(c, addressing_mode, low_byte, high_byte) ==
    CASE addressing_mode = "Zeropage" ->
           LET r == zeropage_read(c, low_byte)
               s == inc_value(c, r.value)
           IN  Done(zeropage_write(s.cpu, low_byte, s.value), 5)
      [] addressing_mode = "ZeropageXIndexed" ->
           LET r == zeropage_x_read(c, low_byte)
               s == inc_value(c, r.value)
           IN  Done(zeropage_x_write(s.cpu, low_byte, s.value), 6)
      [] addressing_mode = "Absolute" ->
           LET r == absolute_read(c, low_byte, high_byte)
               s == inc_value(c, r.value)
           IN  Done(absolute_write(s.cpu, low_byte, high_byte, s.value), 6)
      [] addressing_mode = "AbsoluteXIndexed" ->
           LET r == absolute_x_read(c, low_byte, high_byte)
               s == inc_value(c, r.value)
           IN  Done(absolute_x_write(s.cpu, low_byte, high_byte, s.value), 7)
      [] OTHER -> handle_invalid_addressing_mode(c)

instruction_dec(c, addressing_mode, low_byte, high_byte) ==
    CASE addressing_mode = "Zeropage" ->
           LET r == zeropage_read(c, low_byte)
               s == dec_value(c, r.value)
           IN  Done(zeropage_write(s.cpu, low_byte, s.value), 5)
      [] addressing_mode = "ZeropageXIndexed" ->
           LET r == zeropage_x_read(c, low_byte)
               s == dec_value(c, r.value)
           IN  Done(zeropage_x_write(s.cpu, low_byte, s.value), 6)
      [] addressing_mode = "Absolute" ->
           LET r == absolute_read(c, low_byte, high_byte)
               s == dec_value(c, r.value)
           IN  Done(absolute_write(s.cpu, low_byte, high_byte, s.value), 6)
      [] addressing_mode = "AbsoluteXIndexed" ->
           LET r == absolute_x_read(c, low_byte, high_byte)
               s == dec_value(c, r.value)
           IN  Done(absolute_x_write(s.cpu, low_byte, high_byte, s.value), 7)
      [] OTHER -> handle_invalid_addressing_mode(c)

instruction_inx(c) ==
    LET c1 == SetX(c, wrapping_add8(c.x, 1))
    IN  Done(modify_negative_flag(modify_zero_flag(c1, c1.x), c1.x), 2)

instruction_iny(c) ==
    LET c1 == SetY(c, wrapping_add8(c.y, 1))
    IN  Done(modify_negative_flag(modify_zero_flag(c1, c1.y), c1.y), 2)

instruction_dex(c) ==
    LET c1 == SetX(c, wrapping_sub8(c.x, 1))
    IN  Done(modify_negative_flag(modify_zero_flag(c1, c1.x), c1.x), 2)

instruction_dey(c) ==
    LET c1 == SetY(c, wrapping_sub8(c.y, 1))
    IN  Done(modify_negative_flag(modify_zero_flag(c1, c1.y), c1.y), 2)

----------------------------------------------------------------------------
(* logical.rs, register_transfers.rs, status_flags.rs: the files are not   *)
(* among the sources; the routines follow sections 4.3 of the design:      *)
(* AND/ORA/EOR are bitwise on A with N, Z from the result; BIT sets Z from *)
(* A AND M, N from bit 7 of M and V from bit 6 of M; the transfers copy a  *)
(* register and set N, Z; the flag instructions set or clear one flag.     *)
(* Cycle counts follow the standard table of the same section.             *)

and_intermediate(c, value) ==
    LET c1 == SetA(c, BitAnd(c.accumulator, value))
    IN  modify_negative_flag(modify_zero_flag(c1, c1.accumulator), c1.accumulator)

ora_intermediate(c, value) ==
    LET c1 == SetA(c, BitOr(c.accumulator, value))
    IN  modify_negative_flag(modify_zero_flag(c1, c1.accumulator), c1.accumulator)

eor_intermediate(c, value) ==
    LET c1 == SetA(c, BitXor(c.accumulator, value))
    IN  modify_negative_flag(modify_zero_flag(c1, c1.accumulator), c1.accumulator)

bit_intermediate(c, value) ==
    LET c1 == modify_zero_flag(c, BitAnd(c.accumulator, value))
        c2 == FlagPut(c1, 7, Bit(value, 7) = 1)
    IN  FlagPut(c2, 6, Bit(value, 6) = 1)

instruction_and(c, addressing_mode, low_byte, high_byte) ==
    CASE addressing_mode = "Immediate" ->
           LET r == immediate_read(low_byte)
           IN  Done(and_intermediate(Raise(c, r), r.value), 2)
      [] addressing_mode = "Zeropage" ->
           LET r == zeropage_read(c, low_byte)
           IN  Done(and_intermediate(Raise(c, r), r.value), 3)
      [] addressing_mode = "ZeropageXIndexed" ->
           LET r == zeropage_x_read(c, low_byte)
           IN  Done(and_intermediate(Raise(c, r), r.value), 4)
      [] addressing_mode = "Absolute" ->
           LET r == absolute_read(c, low_byte, high_byte)
           IN  Done(and_intermediate(Raise(c, r), r.value), 4)
      [] addressing_mode = "AbsoluteXIndexed" ->
           LET r == absolute_x_read(c, low_byte, high_byte)
           IN  Done(and_intermediate(Raise(c, r), r.value), IF r.page_changed THEN 5 ELSE 4)
      [] addressing_mode = "AbsoluteYIndexed" ->
           LET r == absolute_y_read(c, low_byte, high_byte)
           IN  Done(and_intermediate(Raise(c, r), r.value), IF r.page_changed THEN 5 ELSE 4)
      [] addressing_mode = "IndirectXIndexed" ->
           LET r == indirect_x_read(c, low_byte)
           IN  Done(and_intermediate(Raise(c, r), r.value), 6)
      [] addressing_mode = "IndirectYIndexed" ->
           LET r == indirect_y_read(c, low_byte)
           IN  Done(and_intermediate(Raise(c, r), r.value), IF r.page_changed THEN 6 ELSE 5)
      [] OTHER -> handle_invalid_addressing_mode(c)

instruction_ora(c, addressing_mode, low_byte, high_byte) ==
    CASE addressing_mode = "Immediate" ->
           LET r == immediate_read(low_byte)
           IN  Done(ora_intermediate(Raise(c, r), r.value), 2)
      [] addressing_mode = "Zeropage" ->
           LET r == zeropage_read(c, low_byte)
           IN  Done(ora_intermediate(Raise(c, r), r.value), 3)
      [] addressing_mode = "ZeropageXIndexed" ->
           LET r == zeropage_x_read(c, low_byte)
           IN  Done(ora_intermediate(Raise(c, r), r.value), 4)
      [] addressing_mode = "Absolute" ->
           LET r == absolute_read(c, low_byte, high_byte)
           IN  Done(ora_intermediate(Raise(c, r), r.value), 4)
      [] addressing_mode = "AbsoluteXIndexed" ->
           LET r == absolute_x_read(c, low_byte, high_byte)
           IN  Done(ora_intermediate(Raise(c, r), r.value), IF r.page_changed THEN 5 ELSE 4)
      [] addressing_mode = "AbsoluteYIndexed" ->
           LET r == absolute_y_read(c, low_byte, high_byte)
           IN  Done(ora_intermediate(Raise(c, r), r.value), IF r.page_changed THEN 5 ELSE 4)
      [] addressing_mode = "IndirectXIndexed" ->
           LET r == indirect_x_read(c, low_byte)
           IN  Done(ora_intermediate(Raise(c, r), r.value), 6)
      [] addressing_mode = "IndirectYIndexed" ->
           LET r == indirect_y_read(c, low_byte)
           IN  Done(ora_intermediate(Raise(c, r), r.value), IF r.page_changed THEN 6 ELSE 5)
      [] OTHER -> handle_invalid_addressing_mode(c)

instruction_eor(c, addressing_mode, low_byte, high_byte) ==
    CASE addressing_mode = "Immediate" ->
           LET r == immediate_read(low_byte)
           IN  Done(eor_intermediate(Raise(c, r), r.value), 2)
      [] addressing_mode = "Zeropage" ->
           LET r == zeropage_read(c, low_byte)
           IN  Done(eor_intermediate(Raise(c, r), r.value), 3)
      [] addressing_mode = "ZeropageXIndexed" ->
           LET r == zeropage_x_read(c, low_byte)
           IN  Done(eor_intermediate(Raise(c, r), r.value), 4)
      [] addressing_mode = "Absolute" ->
           LET r == absolute_read(c, low_byte, high_byte)
           IN  Done(eor_intermediate(Raise(c, r), r.value), 4)
      [] addressing_mode = "AbsoluteXIndexed" ->
           LET r == absolute_x_read(c, low_byte, high_byte)
           IN  Done(eor_intermediate(Raise(c, r), r.value), IF r.page_changed THEN 5 ELSE 4)
      [] addressing_mode = "AbsoluteYIndexed" ->
           LET r == absolute_y_read(c, low_byte, high_byte)
           IN  Done(eor_intermediate(Raise(c, r), r.value), IF r.page_changed THEN 5 ELSE 4)
      [] addressing_mode = "IndirectXIndexed" ->
           LET r == indirect_x_read(c, low_byte)
           IN  Done(eor_intermediate(Raise(c, r), r.value), 6)
      [] addressing_mode = "IndirectYIndexed" ->
           LET r == indirect_y_read(c, low_byte)
           IN  Done(eor_intermediate(Raise(c, r), r.value), IF r.page_changed THEN 6 ELSE 5)
      [] OTHER -> handle_invalid_addressing_mode(c)

instruction_bit(c, addressing_mode, low_byte, high_byte) ==
    CASE addressing_mode = "Zeropage" ->
           LET r == zeropage_read(c, low_byte)
           IN  Done(bit_intermediate(Raise(c, r), r.value), 3)
      [] addressing_mode = "Absolute" ->
           LET r == absolute_read(c, low_byte, high_byte)
           IN  Done(bit_intermediate(Raise(c, r), r.value), 4)
      [] OTHER -> handle_invalid_addressing_mode(c)

instruction_tax(c) ==
    LET c1 == SetX(c, c.accumulator)
    IN  Done(modify_negative_flag(modify_zero_flag(c1, c1.x), c1.x), 2)

instruction_tay(c) ==
    LET c1 == SetY(c, c.accumulator)
    IN  Done(modify_negative_flag(modify_zero_flag(c1, c1.y), c1.y), 2)

instruction_txa(c) ==
    LET c1 == SetA(c, c.x)
    IN  Done(modify_negative_flag(modify_zero_flag(c1, c1.accumulator), c1.accumulator), 2)

instruction_tya(c) ==
    LET c1 == SetA(c, c.y)
    IN  Done(modify_negative_flag(modify_zero_flag(c1, c1.accumulator), c1.accumulator), 2)

instruction_clc(c) == Done(clear_carry_flag(c), 2)

instruction_cld(c) == Done(clear_decimal_flag(c), 2)

instruction_cli(c) == Done(clear_interrupt_disable_flag(c), 2)

instruction_clv(c) == Done(clear_overflow_flag(c), 2)

instruction_sec(c) == Done(set_carry_flag(c), 2)

instruction_sed(c) == Done(set_decimal_flag(c), 2)

instruction_sei(c) == Done(set_interrupt_disable_flag(c), 2)

----------------------------------------------------------------------------
(* lib.rs: fetch, execute *)

Instruction(opcode, addressing_mode, low_byte, high_byte) ==
    [opcode |-> opcode, addressing_mode |-> addressing_mode,
     low_byte |-> low_byte, high_byte |-> high_byte]

(* fetch hands back the Cpu with the program counter advanced and the      *)
(* Option<Instruction>.                                                    *)
(* A length that gives BRK no padding byte. *)
instruction_length_unpadded(full_opcode) == bytes_required(full_opcode.addressing_mode)

instruction_length(full_opcode) ==
    bytes_required(full_opcode.addressing_mode)
    + (IF full_opcode.opcode = "BRK" THEN 1 ELSE 0)

(* A fetch that takes the opcode byte only. *)
fetch_operands_opcode_only(c, full_opcode, length) ==
    [cpu |-> SetPC(c, wrapping_add16(c.program_counter, 1)),
     instruction |->
         Some(Instruction(full_opcode.opcode, full_opcode.addressing_mode, None, None))]

fetch_operands(c, full_opcode, length) ==
    [cpu |-> SetPC(c, wrapping_add16(c.program_counter, length)),
     instruction |->
         Some(Instruction(full_opcode.opcode, full_opcode.addressing_mode,
                          IF length >= 2
                          THEN Some(read(c, wrapping_add16(c.program_counter, 1)))
                          ELSE None,
                          IF length = 3
                          THEN Some(read(c, wrapping_add16(c.program_counter, 2)))
                          ELSE None))]

(* A fetch that steps over a byte it cannot decode. *)
fetch_decoded_skipping(c, decoded) ==
    IF decoded = None
    THEN [cpu |-> SetPC(c, wrapping_add16(c.program_counter, 1)), instruction |-> None]
    ELSE fetch_operands(c, unwrap(decoded), instruction_length(unwrap(decoded)))

fetch_decoded(c, decoded) ==
    IF decoded = None
    THEN [cpu |-> c, instruction |-> None]
    ELSE fetch_operands(c, unwrap(decoded), instruction_length(unwrap(decoded)))

fetch(c) == fetch_decoded(c, try_new(read(c, c.program_counter)))

execute(c, instruction) ==
    LET opcode == instruction.opcode
        addressing_mode == instruction.addressing_mode
        low_byte == instruction.low_byte
        high_byte == instruction.high_byte
    IN  CASE opcode = "ADC" -> instruction_adc(c, addressing_mode, low_byte, high_byte)
          [] opcode = "AND" -> instruction_and(c, addressing_mode, low_byte, high_byte)
          [] opcode = "ASL" -> instruction_asl(c, addressing_mode, low_byte, high_byte)
          [] opcode = "BCC" -> instruction_bcc(c, low_byte)
          [] opcode = "BCS" -> instruction_bcs(c, low_byte)
          [] opcode = "BEQ" -> instruction_beq(c, low_byte)
          [] opcode = "BIT" -> instruction_bit(c, addressing_mode, low_byte, high_byte)
          [] opcode = "BMI" -> instruction_bmi(c, low_byte)
          [] opcode = "BNE" -> instruction_bne(c, low_byte)
          [] opcode = "BPL" -> instruction_bpl(c, low_byte)
          [] opcode = "BRK" -> instruction_brk(c, "Inactive")
          [] opcode = "BVC" -> instruction_bvc(c, low_byte)
          [] opcode = "BVS" -> instruction_bvs(c, low_byte)
          [] opcode = "CLC" -> instruction_clc(c)
          [] opcode = "CLD" -> instruction_cld(c)
          [] opcode = "CLI" -> instruction_cli(c)
          [] opcode = "CLV" -> instruction_clv(c)
          [] opcode = "CMP" -> instruction_cmp(c, addressing_mode, low_byte, high_byte)
          [] opcode = "CPX" -> instruction_cpx(c, addressing_mode, low_byte, high_byte)
          [] opcode = "CPY" -> instruction_cpy(c, addressing_mode, low_byte, high_byte)
          [] opcode = "DEC" -> instruction_dec(c, addressing_mode, low_byte, high_byte)
          [] opcode = "DEX" -> instruction_dex(c)
          [] opcode = "DEY" -> instruction_dey(c)
          [] opcode = "EOR" -> instruction_eor(c, addressing_mode, low_byte, high_byte)
          [] opcode = "INC" -> instruction_inc(c, addressing_mode, low_byte, high_byte)
          [] opcode = "INX" -> instruction_inx(c)
          [] opcode = "INY" -> instruction_iny(c)
          [] opcode = "JMP" -> instruction_jmp(c, addressing_mode, low_byte, high_byte)
          [] opcode = "JSR" -> instruction_jsr(c, low_byte, high_byte)
          [] opcode = "LDA" -> instruction_lda(c, addressing_mode, low_byte, high_byte)
          [] opcode = "LDX" -> instruction_ldx(c, addressing_mode, low_byte, high_byte)
          [] opcode = "LDY" -> instruction_ldy(c, addressing_mode, low_byte, high_byte)
          [] opcode = "LSR" -> instruction_lsr(c, addressing_mode, low_byte, high_byte)
          [] opcode = "NOP" -> instruction_nop(c)
          [] opcode = "ORA" -> instruction_ora(c, addressing_mode, low_byte, high_byte)
          [] opcode = "PHA" -> instruction_pha(c)
          [] opcode = "PHP" -> instruction_php(c)
          [] opcode = "PLA" -> instruction_pla(c)
          [] opcode = "PLP" -> instruction_plp(c)
          [] opcode = "ROL" -> instruction_rol(c, addressing_mode, low_byte, high_byte)
          [] opcode = "ROR" -> instruction_ror(c, addressing_mode, low_byte, high_byte)
          [] opcode = "RTI" -> instruction_rti(c)
          [] opcode = "RTS" -> instruction_rts(c)
          [] opcode = "SBC" -> instruction_sbc(c, addressing_mode, low_byte, high_byte)
          [] opcode = "SEC" -> instruction_sec(c)
          [] opcode = "SED" -> instruction_sed(c)
          [] opcode = "SEI" -> instruction_sei(c)
          [] opcode = "STA" -> instruction_sta(c, addressing_mode, low_byte, high_byte)
          [] opcode = "STX" -> instruction_stx(c, addressing_mode, low_byte, high_byte)
          [] opcode = "STY" -> instruction_sty(c, addressing_mode, low_byte, high_byte)
          [] opcode = "TAX" -> instruction_tax(c)
          [] opcode = "TAY" -> instruction_tay(c)
          [] opcode = "TSX" -> instruction_tsx(c)
          [] opcode = "TXA" -> instruction_txa(c)
          [] opcode = "TXS" -> instruction_txs(c)
          [] opcode = "TYA" -> instruction_tya(c)


----------------------------------------------------------------------------
(* lib.rs: the public API of Cpu *)

(* A poll that never looks at the I flag. *)
interrupts_disabled_unread(c) == FALSE

interrupts_disabled(c) == BitAnd(c.processor_status, 4) # 0

set_interrupt_state(c, new_state) ==
    IF c.panic # NoPanic THEN c ELSE [c EXCEPT !.interrupts.interrupt = new_state]

set_non_maskable_interrupt_state(c, new_state) ==
    IF c.panic # NoPanic THEN c ELSE [c EXCEPT !.interrupts.non_maskable_interrupt = new_state]

(* What cycle() and cycle_debug() hand back; dispatch records which of the *)
(* three paths of cycle() ran.                                             *)
Ran(done, dispatch, instruction) ==
    [cpu |-> done.cpu, cycles |-> done.cycles, dispatch |-> dispatch,
     instruction |-> instruction]

UnwrapNone == "called Option::unwrap() on a None value"

(* let instruction = self.fetch().unwrap(); self.execute(instruction)       *)
execute_unwrapped(f) ==
    IF f.instruction = None
    THEN Ran(Done(Panic(f.cpu, UnwrapNone), 0), "fetch", None)
    ELSE Ran(execute(f.cpu, unwrap(f.instruction)), "fetch", f.instruction)

cycle(c) ==
    IF c.interrupts.non_maskable_interrupt
    THEN Ran(instruction_brk(set_non_maskable_interrupt_state(c, FALSE), "NonMaskableInterrupt"),
             "NonMaskableInterrupt", None)
    ELSE IF c.interrupts.interrupt /\ ~interrupts_disabled(c)
         THEN Ran(instruction_brk(set_interrupt_state(c, FALSE), "MaskableInterrupt"),
                  "MaskableInterrupt", None)
         ELSE execute_unwrapped(fetch(c))

(* match self.fetch() { Some(x) => x, None => return (0, false, None) }     *)
execute_fetched(f) ==
    IF f.instruction = None
    THEN Ran(Done(f.cpu, 0), "fetch", None)
    ELSE Ran(execute(f.cpu, unwrap(f.instruction)), "fetch", f.instruction)

cycle_debug(c) == execute_fetched(fetch(c))

(* A reset that marks the Cpu as not initialized. *)
reset_uninitialized(c) ==
    [instruction_brk(set_interrupt_disable_flag(c), "Reset").cpu EXCEPT !.initialized = FALSE]

(* A reset that leaves the decimal flag as it is. *)
reset_keeping_decimal(c) ==
    LET c1 == clear_carry_flag(c)
        c2 == clear_zero_flag(c1)
        c3 == set_interrupt_disable_flag(c2)
        c5 == clear_overflow_flag(c3)
        c6 == clear_negative_flag(c5)
        c7 == clear_break_flag(c6)
    IN  instruction_brk(c7, "Reset").cpu

reset(c) ==
    LET c1 == clear_carry_flag(c)
        c2 == clear_zero_flag(c1)
        c3 == set_interrupt_disable_flag(c2)
        c4 == clear_decimal_flag(c3)
        c5 == clear_overflow_flag(c4)
        c6 == clear_negative_flag(c5)
        c7 == clear_break_flag(c6)
    IN  instruction_brk(c7, "Reset").cpu

set_initialized(c) ==
    IF c.panic # NoPanic THEN c ELSE [c EXCEPT !.initialized = TRUE]

initialize(c) == set_initialized(reset(c))

new(memory_mapper, interrupts) ==
    [accumulator      |-> 0,
     x                |-> 0,
     y                |-> 0,
     stack_pointer    |-> STACK_POINTER_STARTING_VALUE,
     program_counter  |-> 0,
     processor_status |-> ProcessorStatus_new,
     memory_mapper    |-> memory_mapper,
     interrupts       |-> interrupts,
     initialized      |-> FALSE,
     panic            |-> NoPanic]

(* CpuState: pc, s, a, x, y, p and ram, a list of <<address, value>>.      *)
CpuState(pc, s, a, x, y, p, ram) ==
    [pc |-> pc, s |-> s, a |-> a, x |-> x, y |-> y, p |-> p, ram |-> ram]

(* for i in 0..=65535 { if self.read(i) != 0 { ram.push([i, value]) } }:   *)
(* the addresses first..last scanned in ascending order, a range holding   *)
(* no written cell contributing nothing.                                   *)
RECURSIVE NonZeroCells(_, _, _)
NonZeroCells(c, first, last) ==
    IF \A address \in DOMAIN c.memory_mapper : address < first \/ address > last
    THEN <<>>
    ELSE IF first = last
         THEN IF read(c, first) # 0 THEN << <<first, read(c, first)>> >> ELSE <<>>
         ELSE NonZeroCells(c, first, (first + last) \div 2)
              \o NonZeroCells(c, (first + last) \div 2 + 1, last)

state(c) ==
    CpuState(c.program_counter, c.stack_pointer, c.accumulator, c.x, c.y,
             c.processor_status, NonZeroCells(c, 0, 65535))

(* cloned.sort_by(|a, b| a[0].cmp(&b[0])): a stable sort on the address;   *)
(* SortSeq inserts each chunk after the chunks it is not less than.        *)
ByAddress(a, b) == a[1] < b[1]

SortByAddress(ram) == SortSeq(ram, ByAddress)

NonZero(chunk) == chunk[2] # 0

(* A normal form that drops the zero entries and keeps the order. *)
normalized_ram_unsorted(ram) == SelectSeq(ram, NonZero)

normalized_ram(ram) == SelectSeq(SortByAddress(ram), NonZero)

CpuState_eq(self, other) ==
    /\ self.pc = other.pc
    /\ self.s = other.s
    /\ self.a = other.a
    /\ self.x = other.x
    /\ self.y = other.y
    /\ self.p = other.p
    /\ normalized_ram(self.ram) = normalized_ram(other.ram)

(* for chunk in &cpu_state.ram { memory_mapper.write(address, value as u8) } *)
(* the chunks are written first to last, so a cell ends up holding the     *)
(* value of the last chunk that names it.                                  *)
LastChunk(ram, address) ==
    ram[CHOOSE i \in DOMAIN ram :
            /\ ram[i][1] = address
            /\ \A j \in DOMAIN ram : j > i => ram[j][1] # address]

WrittenByte(memory_mapper, ram, address) ==
    IF \E i \in DOMAIN ram : ram[i][1] = address
    THEN LastChunk(ram, address)[2] % 256
    ELSE MapperRead(memory_mapper, address)

WriteChunks(memory_mapper, ram) ==
    [address \in {a \in DOMAIN memory_mapper \cup {ram[i][1] : i \in DOMAIN ram} :
                     WrittenByte(memory_mapper, ram, a) # 0}
        |-> WrittenByte(memory_mapper, ram, address)]

from_state(cpu_state, memory_mapper, interrupts) ==
    LET c == [accumulator      |-> cpu_state.a,
              x                |-> cpu_state.x,
              y                |-> cpu_state.y,
              stack_pointer    |-> cpu_state.s,
              program_counter  |-> cpu_state.pc,
              processor_status |-> cpu_state.p,
              memory_mapper    |-> WriteChunks(memory_mapper, cpu_state.ram),
              interrupts       |-> interrupts,
              initialized      |-> TRUE,
              panic            |-> NoPanic]
    IN  IF CpuState_eq(state(c), cpu_state) THEN c ELSE Panic(c, "assertion failed")

InterruptsContainer(interrupt, non_maskable_interrupt) ==
    [interrupt |-> interrupt, non_maskable_interrupt |-> non_maskable_interrupt]

(* Memory::new(): every cell zero. *)
Memory_new == <<>>


----------------------------------------------------------------------------
(* The host.  It builds the Cpu with new() or from_state() and then calls  *)
(* the public API; it raises the interrupt lines on the Interrupts         *)
(* collaborator it shares with the core.                                   *)

MaxCalls == 2

MaxLifecycleCalls == 3

MaxStackCalls == 512

(* The memory image the host supplies, as the ram list of a snapshot:      *)
(* the three vectors and one instruction at each address of StartPCs.      *)
Rom ==
    << <<\h0000, \h00CA>>,                                         \* DEX
       <<\h0001, \h009A>>,                                         \* TXS
       <<\h0080, \h00FF>>, <<\h0081, \h00FF>>,                     \* pointer $FFFF
       <<\h0101, \h00FF>>, <<\h0103, \h0030>>,                     \* stack page
       <<\h0104, \h00CF>>, <<\h0105, \h0005>>, <<\h0106, \h0002>>,
       <<\h01FE, \h00FF>>,
       <<\h0200, \h0048>>,                                         \* PHA
       <<\h0201, \h0068>>,                                         \* PLA
       <<\h0202, \h0020>>, <<\h0203, \h0005>>, <<\h0204, \h0002>>, \* JSR $0205
       <<\h0205, \h0060>>,                                         \* RTS
       <<\h0206, \h0000>>, <<\h0207, \h0007>>,                     \* BRK, padding
       <<\h0208, \h0040>>,                                         \* RTI
       <<\h0209, \h0002>>,                                         \* not an opcode
       <<\h020A, \h0008>>,                                         \* PHP
       <<\h020B, \h0028>>,                                         \* PLP
       <<\h020C, \h00B1>>, <<\h020D, \h0080>>,                     \* LDA ($80),Y
       <<\h020E, \h0058>>,                                         \* CLI
       <<\h020F, \h0069>>, <<\h0210, \h0050>>,                     \* ADC #$50
       <<\h0211, \h006C>>, <<\h0212, \h00FF>>, <<\h0213, \h0030>>, \* JMP ($30FF)
       <<\h0214, \h006C>>, <<\h0215, \h0080>>, <<\h0216, \h0030>>, \* JMP ($3080)
       <<\h2034, \h00EA>>,                                         \* NOP (reset handler)
       <<\h3000, \h0040>>,                                         \* high byte of ($30FF)
       <<\h3080, \h0034>>, <<\h3081, \h0012>>,                     \* pointer $1234
       <<\h30FF, \h0080>>,                                         \* low byte of ($30FF)
       <<\h3100, \h0050>>,                                         \* next page
       <<\h9012, \h0040>>,                                         \* RTI (NMI handler)
       <<\hC056, \h0040>>,                                         \* RTI (IRQ handler)
       <<\hFFFA, \h0012>>, <<\hFFFB, \h0090>>,                     \* NMI vector $9012
       <<\hFFFC, \h0034>>, <<\hFFFD, \h0020>>,                     \* Reset vector $2034; JSR at $FFFD
       <<\hFFFE, \h0056>>, <<\hFFFF, \h00C0>> >>                   \* IRQ/BRK vector $C056

(* 256 PHA at $0200-$02FF followed by 256 PLA at $0300-$03FF.              *)
StackProgram ==
    [i \in 1..512 |-> <<\h0200 + (i - 1), IF i <= 256 THEN \h0048 ELSE \h0068>>]

StartPCs ==
    {\h0000, \h0200, \h0201, \h0202, \h0205, \h0206, \h0208, \h0209, \h020A, \h020B,
     \h020C, \h020E, \h020F, \h0211, \h0214, \h2034, \hFFFD}

StackPointers == {\h0000, \h0002, \h0003, \h00FD, \h00FF}

Statuses == {\h0000, \h0004, \h0010, \h00EB}

Accumulators == {\h0050}

HostAddresses == {\h0209}

HostBytes == {\h00EA}

NoReturn ==
    [cycles |-> None, ok |-> None, instruction |-> None, state |-> None, dispatch |-> "none"]

(* Cpu::new over the host's mapper, holding the image ram.                 *)
InitNew(ram) ==
    /\ \E irq \in BOOLEAN, nmi \in BOOLEAN :
           cpu = new(WriteChunks(Memory_new, ram), InterruptsContainer(irq, nmi))
    /\ snapshot = None
    /\ call = "new"

(* Cpu::from_state over an empty mapper. *)
Restore(cpu_state, interrupts) ==
    /\ cpu = from_state(cpu_state, Memory_new, interrupts)
    /\ snapshot = Some(cpu_state)
    /\ call = "from_state"

(* Cpu::from_state from a snapshot with ram.                               *)
InitFromState(pcs, stack_pointers, statuses, lines, ram) ==
    /\ \E pc \in pcs, s \in stack_pointers, p \in statuses, a \in Accumulators,
          irq \in lines, nmi \in lines :
           Restore(CpuState(pc, s, a, 0, 1, p, ram),
                   InterruptsContainer(irq, nmi))

InitHost ==
    /\ overflow_checks \in BOOLEAN
    /\ origin = cpu
    /\ before = cpu
    /\ ret = NoReturn
    /\ ncalls = 0

Init ==
    /\ InitNew(Rom) \/ InitFromState(StartPCs, StackPointers, Statuses, BOOLEAN, Rom)
    /\ InitHost

(* A call is made on a live Cpu: after a panic the program has ended.      *)
CanCall(limit) == cpu.panic = NoPanic /\ ncalls < limit

Called(name) ==
    /\ call' = name
    /\ before' = cpu
    /\ ncalls' = ncalls + 1
    /\ UNCHANGED <<overflow_checks, origin, snapshot>>

(* What the host gets back from cycle(): the cycle count, unless the call  *)
(* panicked.                                                               *)
CycleReturn(r) ==
    IF r.cpu.panic # NoPanic
    THEN [NoReturn EXCEPT !.dispatch = r.dispatch]
    ELSE [NoReturn EXCEPT !.cycles = Some(r.cycles), !.dispatch = r.dispatch]

CycleDebugReturn(r) ==
    IF r.cpu.panic # NoPanic
    THEN [NoReturn EXCEPT !.dispatch = r.dispatch]
    ELSE [NoReturn EXCEPT !.cycles = Some(r.cycles), !.ok = Some(r.instruction # None),
                          !.instruction = r.instruction, !.dispatch = r.dispatch]

Initialize(limit) ==
    /\ CanCall(limit)
    /\ cpu' = initialize(cpu)
    /\ ret' = NoReturn
    /\ Called("initialize")

Reset(limit) ==
    /\ CanCall(limit)
    /\ cpu' = reset(cpu)
    /\ ret' = NoReturn
    /\ Called("reset")

Cycle(limit) ==
    /\ CanCall(limit)
    /\ \E r \in {cycle(cpu)} :
           /\ cpu' = r.cpu
           /\ ret' = CycleReturn(r)
    /\ Called("cycle")

CycleDebug(limit) ==
    /\ CanCall(limit)
    /\ \E r \in {cycle_debug(cpu)} :
           /\ cpu' = r.cpu
           /\ ret' = CycleDebugReturn(r)
    /\ Called("cycle_debug")

State(limit) ==
    /\ CanCall(limit)
    /\ ret' = [NoReturn EXCEPT !.state = Some(state(cpu))]
    /\ cpu' = cpu
    /\ Called("state")

Read(limit) ==
    /\ CanCall(limit)
    /\ \E address \in HostAddresses :
           ret' = [NoReturn EXCEPT !.cycles = Some(read(cpu, address))]
    /\ cpu' = cpu
    /\ Called("read")

Write(limit) ==
    /\ CanCall(limit)
    /\ \E address \in HostAddresses, value \in HostBytes :
           cpu' = write(cpu, address, value)
    /\ ret' = NoReturn
    /\ Called("write")

RaiseInterrupt(limit) ==
    /\ CanCall(limit)
    /\ cpu' = set_interrupt_state(cpu, TRUE)
    /\ ret' = NoReturn
    /\ Called("set_interrupt_state")

RaiseNonMaskableInterrupt(limit) ==
    /\ CanCall(limit)
    /\ cpu' = set_non_maskable_interrupt_state(cpu, TRUE)
    /\ ret' = NoReturn
    /\ Called("set_non_maskable_interrupt_state")

Next ==
    \/ Initialize(MaxCalls)
    \/ Reset(MaxCalls)
    \/ Cycle(MaxCalls)
    \/ CycleDebug(MaxCalls)
    \/ Read(MaxCalls)
    \/ Write(MaxCalls)
    \/ RaiseInterrupt(MaxCalls)
    \/ RaiseNonMaskableInterrupt(MaxCalls)

Spec == Init /\ [][Next]_vars

----------------------------------------------------------------------------
(* The lifecycle: a Cpu made by new() over the image, or one snapshot      *)
(* restored by from_state(), driven for MaxLifecycleCalls calls.           *)

InitLifecycle ==
    /\ InitNew(Rom) \/ InitFromState({\h0200}, {\h00FD}, {\h0000}, BOOLEAN, Rom)
    /\ InitHost

NextLifecycle ==
    \/ Initialize(MaxLifecycleCalls)
    \/ Reset(MaxLifecycleCalls)
    \/ Cycle(MaxLifecycleCalls)
    \/ CycleDebug(MaxLifecycleCalls)
    \/ Read(MaxLifecycleCalls)
    \/ Write(MaxLifecycleCalls)
    \/ RaiseInterrupt(MaxLifecycleCalls)
    \/ RaiseNonMaskableInterrupt(MaxLifecycleCalls)

SpecLifecycle == InitLifecycle /\ [][NextLifecycle]_vars

----------------------------------------------------------------------------
(* The stack round trip: the host restores a snapshot holding StackProgram *)
(* with PC at its first PHA and no interrupt line raised, and only calls   *)
(* cycle().                                                                *)

StackStarts == {\h0000, \h007F, \h00FF}

InitStack ==
    /\ InitFromState({\h0200}, StackStarts, {\h0000}, {FALSE}, StackProgram)
    /\ InitHost

NextStack == Cycle(MaxStackCalls)

SpecStack == InitStack /\ [][NextStack]_vars

----------------------------------------------------------------------------
(* Branches: the host restores a snapshot holding one branch instruction   *)
(* at PC, with no interrupt line raised, and steps it.                     *)

MaxBranchCalls == 1

BranchOpcodes == {\h0010, \h0030, \h0050, \h0070, \h0090, \h00B0, \h00D0, \h00F0}

BranchPCs == {\h0000, \h0200, \h027E, \h02FD, \hFFFD}

BranchOffsets == {\h0000, \h0001, \h0002, \h007F, \h0080, \h0081, \h00FD, \h00FF}

BranchStatuses == {\h0000, \h0001, \h0002, \h0040, \h0080, \h00C3}

InitBranch ==
    /\ \E pc \in BranchPCs, op \in BranchOpcodes, d \in BranchOffsets,
          p \in BranchStatuses :
           Restore(CpuState(pc, \h00FD, 0, 0, 0, p,
                                     << <<pc, op>>, <<pc + 1, d>> >>),
                   InterruptsContainer(FALSE, FALSE))
    /\ InitHost

NextBranch ==
    \/ Cycle(MaxBranchCalls)
    \/ CycleDebug(MaxBranchCalls)

SpecBranch == InitBranch /\ [][NextBranch]_vars

----------------------------------------------------------------------------
(* Arithmetic: the host restores a snapshot holding ADC #M or SBC #M at PC *)
(* for every byte M, with no interrupt line raised, and steps it.          *)

MaxArithmeticCalls == 1

ArithmeticOpcodes == {\h0069, \h00E9}

ArithmeticAccumulators == {\h0000, \h0001, \h0050, \h007F, \h0080, \h0081, \h00D0, \h00FF}

ArithmeticStatuses == {\h0000, \h0001, \h0008, \h0009, \h00C2, \h00C3}

InitArithmetic ==
    /\ \E op \in ArithmeticOpcodes, a \in ArithmeticAccumulators, m \in 0..255,
          p \in ArithmeticStatuses :
           Restore(CpuState(\h0200, \h00FD, a, 0, 0, p,
                                     << <<\h0200, op>>, <<\h0201, m>> >>),
                   InterruptsContainer(FALSE, FALSE))
    /\ InitHost

NextArithmetic ==
    \/ Cycle(MaxArithmeticCalls)
    \/ CycleDebug(MaxArithmeticCalls)

SpecArithmetic == InitArithmetic /\ [][NextArithmetic]_vars

----------------------------------------------------------------------------
(* Compares: the host restores a snapshot holding CMP #M, CPX #M or CPY #M *)
(* at PC for every byte M, with three different values in A, X and Y.      *)

MaxCompareCalls == 1

CompareOpcodes == {\h00C9, \h00E0, \h00C0}

CompareRegisters == {\h0000, \h0001, \h0050, \h007F, \h0080, \h0081, \h00D0, \h00FF}

CompareStatuses == {\h0000, \h0001, \h004C, \h00C3}

InitCompare ==
    /\ \E op \in CompareOpcodes, r \in CompareRegisters, m \in 0..255,
          p \in CompareStatuses :
           Restore(CpuState(\h0200, \h00FD, r, (r + \h0055) % 256,
                                     (r + \h00AA) % 256, p,
                                     << <<\h0200, op>>, <<\h0201, m>> >>),
                   InterruptsContainer(FALSE, FALSE))
    /\ InitHost

NextCompare ==
    \/ Cycle(MaxCompareCalls)
    \/ CycleDebug(MaxCompareCalls)

SpecCompare == InitCompare /\ [][NextCompare]_vars

----------------------------------------------------------------------------
(* Fetch and decode: the host restores a snapshot holding each of the 256  *)
(* byte values at PC, followed by the bytes $34 and $12, with PC in the    *)
(* middle of memory and at its end, and steps it.                          *)

MaxFetchCalls == 1

FetchPCs == {\h0200, \hFFFE, \hFFFF}

(* <<A, X, Y, P>> *)
FetchRegisters == {<<\h0000, \h0000, \h0000, \h0000>>, <<\h0080, \h0001, \h0002, \h00C3>>}

InitFetch ==
    /\ \E byte \in 0..255, pc \in FetchPCs, r \in FetchRegisters :
           Restore(CpuState(pc, \h0080, r[1], r[2], r[3], r[4],
                                     << <<pc, byte>>,
                                        <<(pc + 1) % 65536, \h0034>>,
                                        <<(pc + 2) % 65536, \h0012>> >>),
                   InterruptsContainer(FALSE, FALSE))
    /\ InitHost

NextFetch ==
    \/ Cycle(MaxFetchCalls)
    \/ CycleDebug(MaxFetchCalls)

SpecFetch == InitFetch /\ [][NextFetch]_vars

----------------------------------------------------------------------------
(* Snapshots: the host restores a snapshot whose ram is any list of up to  *)
(* MaxChunks [address, value] pairs, the values being u16, and reads the   *)
(* state back or steps the Cpu.                                            *)

MaxSnapshotCalls == 1

MaxChunks == 2

SnapshotAddresses == {\h0010, \h0200}

SnapshotValues == {\h0000, \h0001, \h00EA, \h0100, \h01EA}

SnapshotRams ==
    UNION {[1..n -> {<<address, value>> : address \in SnapshotAddresses,
                                          value \in SnapshotValues}] :
           n \in 0..MaxChunks}

SnapshotAccumulators == {\h0000, \h0050}

InitSnapshot ==
    /\ \E ram \in SnapshotRams, a \in SnapshotAccumulators :
           Restore(CpuState(\h0200, \h00FD, a, 1, 2, \h0024, ram),
                   InterruptsContainer(FALSE, FALSE))
    /\ InitHost

NextSnapshot ==
    \/ State(MaxSnapshotCalls)
    \/ Cycle(MaxSnapshotCalls)
    \/ CycleDebug(MaxSnapshotCalls)

SpecSnapshot == InitSnapshot /\ [][NextSnapshot]_vars

----------------------------------------------------------------------------
(* Shifts: the host restores a snapshot holding one shift or rotate at     *)
(* $0200, followed by a rotate of the accumulator, with every byte as the  *)
(* value to be shifted, and steps through them.                            *)

MaxShiftCalls == 2

(* ASL, ROL, LSR, ROR in Accumulator, Zeropage, ZeropageX, Absolute and    *)
(* AbsoluteX mode.                                                         *)
ShiftOpcodes ==
    {kind * 32 + mode : kind \in 0 .. 3, mode \in {\h000A, \h0006, \h0016, \h000E, \h001E}}

ShiftStatuses == {\h0000, \h0001, \h00C2, \h00C3}

(* The operand bytes, low then high, and the values of X. *)
ShiftOperand == <<\h0040, \h0012>>

ShiftIndexes == {\h00C5}

(* The cell a shift opcode with the operand above and X = x works on. *)
ShiftCell(opcode, x) ==
    CASE opcode % 32 = \h0006 -> ShiftOperand[1]
      [] opcode % 32 = \h0016 -> (ShiftOperand[1] + x) % 256
      [] opcode % 32 = \h000E -> ShiftOperand[1] + 256 * ShiftOperand[2]
      [] opcode % 32 = \h001E -> ShiftOperand[1] + 256 * ShiftOperand[2] + x

(* The instruction, then the opposite rotate of the accumulator (ROR A     *)
(* after a left shift, ROL A after a right shift), then the value in the   *)
(* cell of a memory mode.                                                  *)
ShiftRam(opcode, x, value) ==
    LET opposite == IF opcode \div 64 = 0 THEN \h006A ELSE \h002A
    IN  CASE opcode % 32 = \h000A ->
               << <<\h0200, opcode>>, <<\h0201, opposite>> >>
          [] opcode % 32 \in {\h0006, \h0016} ->
               << <<\h0200, opcode>>, <<\h0201, ShiftOperand[1]>>,
                  <<\h0202, opposite>>, <<ShiftCell(opcode, x), value>> >>
          [] OTHER ->
               << <<\h0200, opcode>>, <<\h0201, ShiftOperand[1]>>,
                  <<\h0202, ShiftOperand[2]>>, <<\h0203, opposite>>,
                  <<ShiftCell(opcode, x), value>> >>

InitShift ==
    /\ \E opcode \in ShiftOpcodes, value \in 0 .. 255, p \in ShiftStatuses,
          x \in ShiftIndexes :
           Restore(CpuState(\h0200, \h00FD,
                            IF opcode % 32 = \h000A THEN value ELSE \h005A,
                            x, \h0007, p, ShiftRam(opcode, x, value)),
                   InterruptsContainer(FALSE, FALSE))
    /\ InitHost

NextShift ==
    \/ Cycle(MaxShiftCalls)
    \/ CycleDebug(MaxShiftCalls)

SpecShift == InitShift /\ [][NextShift]_vars

----------------------------------------------------------------------------
(* Stack pointer transfers: the host restores a snapshot holding TXS or    *)
(* TSX at $0200 and a marked byte in the stack cells that X and S name.    *)

MaxTransferCalls == 1

TransferOpcodes == {\h009A, \h00BA}                       \* TXS, TSX

TransferBytes == {\h0000, \h0001, \h007F, \h0080, \h00FF}

TransferStatuses == {\h0000, \h0082, \h007D, \h00FF}

InitTransfer ==
    /\ \E opcode \in TransferOpcodes, x \in TransferBytes, s \in TransferBytes,
          p \in TransferStatuses :
           Restore(CpuState(\h0200, s, \h00A5, x, \h005A, p,
                            IF x = s
                            THEN << <<\h0100 + s, \h0033>>, <<\h0200, opcode>> >>
                            ELSE << <<\h0100 + x, \h0011>>, <<\h0100 + s, \h0033>>,
                                    <<\h0200, opcode>> >>),
                   InterruptsContainer(FALSE, FALSE))
    /\ InitHost

NextTransfer ==
    \/ Cycle(MaxTransferCalls)
    \/ CycleDebug(MaxTransferCalls)

SpecTransfer == InitTransfer /\ [][NextTransfer]_vars

----------------------------------------------------------------------------
(* Addressing: the host restores a snapshot holding one instruction with   *)
(* an indexed or indirect operand at $0200, A = $A5, chosen X and Y, and a *)
(* different nonzero byte in every cell the operand could name.            *)

MaxAddressingCalls == 1

IndirectXOpcodes == {\h00A1, \h0081}                      \* LDA, STA

IndirectYReadOpcodes == {\h0071, \h00F1, \h00D1, \h00B1}   \* ADC, SBC, CMP, LDA

IndirectYOpcodes == IndirectYReadOpcodes \cup {\h0091}     \* STA

(* ADC, SBC, CMP, LDA, LDY abs,X; ADC, SBC, CMP, LDA, LDX abs,Y *)
AbsoluteIndexedReadOpcodes ==
    {\h007D, \h00FD, \h00DD, \h00BD, \h00BC, \h0079, \h00F9, \h00D9, \h00B9, \h00BE}

AbsoluteIndexedStoreOpcodes == {\h009D, \h0099}           \* STA abs,X; STA abs,Y

(* ASL, LSR, ROL, ROR, INC, DEC abs,X *)
AbsoluteIndexedModifyOpcodes == {\h001E, \h005E, \h003E, \h007E, \h00FE, \h00DE}

AbsoluteYOpcodes == {\h0079, \h00F9, \h00D9, \h00B9, \h00BE, \h0099}

AbsoluteIndexedOpcodes ==
    AbsoluteIndexedReadOpcodes \cup AbsoluteIndexedStoreOpcodes
        \cup AbsoluteIndexedModifyOpcodes

(* ADC, CMP, SBC, LDA, LDY, STA, STY, ASL, LSR, ROL, ROR, INC, DEC zp,X *)
ZeropageXOpcodes ==
    {\h0075, \h00D5, \h00F5, \h00B5, \h00B4, \h0095, \h0094, \h0016, \h0056, \h0036,
     \h0076, \h00F6, \h00D6}

ZeropageYOpcodes == {\h00B6, \h0096}                      \* LDX, STX

ZeropageIndexedOpcodes == ZeropageXOpcodes \cup ZeropageYOpcodes

AddressingOpcodes ==
    IndirectXOpcodes \cup IndirectYOpcodes \cup AbsoluteIndexedOpcodes
        \cup ZeropageIndexedOpcodes

AddressingLowBytes == {\h0020, \h0080, \h00FE, \h00FF}

AddressingHighBytes == {\h0012, \h00FF}

AddressingXs == {\h0000, \h0001, \h00FF}

AddressingYs == {\h0000, \h0002, \h00FF}

(* The byte the image holds at address: nonzero, and different for         *)
(* neighbouring addresses and for addresses 256 apart.                     *)
ImageByte(address) == ((address * 37 + (address \div 256) * 11) % 255) + 1

(* The addresses a pointer held in the cells low and high could name. *)
PointedAt(low, high, x, y) ==
    {(ImageByte(low) + 256 * ImageByte(high) + index) % 65536 : index \in {0, x, y}}

(* Every cell an operand low, high with index registers x, y could name.   *)
OperandCells(low, high, x, y) ==
    {low, (low + 1) % 256, low + 1, low + x, low + y, (low + x) % 256, (low + y) % 256,
     (low + x + 1) % 256, ((low + x) % 256) + 1}
    \cup {(low + 256 * high + index) % 65536 : index \in {0, x, y}}
    \cup PointedAt((low + x) % 256, (low + x + 1) % 256, x, y)
    \cup PointedAt((low + x) % 256, ((low + x) % 256) + 1, x, y)
    \cup PointedAt(low, (low + 1) % 256, x, y)
    \cup PointedAt(low, low + 1, x, y)

RECURSIVE Ascending(_)
(* The addresses of a set as a list, lowest first. *)
Ascending(addresses) ==
    IF addresses = {} THEN <<>>
    ELSE LET lowest == CHOOSE a \in addresses : \A b \in addresses : a <= b
         IN  <<lowest>> \o Ascending(addresses \ {lowest})

(* The ram list: the instruction at $0200-$0202 and the image elsewhere.   *)
AddressingRam(opcode, low, high, x, y) ==
    LET program == (\h0200 :> opcode) @@ (\h0201 :> low) @@ (\h0202 :> high)
        cells == Ascending(OperandCells(low, high, x, y) \cup DOMAIN program)
    IN  [i \in DOMAIN cells |->
            <<cells[i], IF cells[i] \in DOMAIN program THEN program[cells[i]]
                                                      ELSE ImageByte(cells[i])>>]

InitAddressing ==
    /\ \E opcode \in AddressingOpcodes, low \in AddressingLowBytes,
          high \in AddressingHighBytes, x \in AddressingXs, y \in AddressingYs :
           Restore(CpuState(\h0200, \h00FD, \h00A5, x, y, \h0000,
                            AddressingRam(opcode, low, high, x, y)),
                   InterruptsContainer(FALSE, FALSE))
    /\ InitHost

NextAddressing ==
    \/ Cycle(MaxAddressingCalls)
    \/ CycleDebug(MaxAddressingCalls)

SpecAddressing == InitAddressing /\ [][NextAddressing]_vars

----------------------------------------------------------------------------
(* Properties.  before is the Cpu when the last call was made, cpu the Cpu *)
(* when it ended, ret what it returned.                                    *)

Word(c, address) == read(c, address) + 256 * read(c, address + 1)

StackCell(c, s) == read(c, \h0100 + s)

IFlag(c) == Bit(c.processor_status, 2)

IrqLine(c) == c.interrupts.interrupt

NmiLine(c) == c.interrupts.non_maskable_interrupt

(* cycle() on c gets past both interrupt polls to the fetch. *)
Fetches(c) == ~NmiLine(c) /\ ~(IrqLine(c) /\ IFlag(c) = 0)

OpcodeAt(c) == read(c, c.program_counter)

SameRegisters(c, d) ==
    /\ c.accumulator = d.accumulator
    /\ c.x = d.x
    /\ c.y = d.y

SameMemoryExcept(c, d, cells) ==
    \A address \in (DOMAIN c.memory_mapper \cup DOMAIN d.memory_mapper) \ cells :
        read(c, address) = read(d, address)

(* C1: with the IRQ line asserted, the NMI line not asserted, I clear and  *)
(* S >= 3, one cycle() fetches nothing: it pushes the un-advanced PC high  *)
(* byte at 0x0100+S, the PC low byte below it and P below that, leaving    *)
(* S three lower; it sets I, loads PC from the word at 0xFFFE/0xFFFF,      *)
(* sets the IRQ line to false and returns 7.                               *)
C1_IrqDispatch ==
    (/\ call = "cycle"
     /\ IrqLine(before) /\ ~NmiLine(before) /\ IFlag(before) = 0
     /\ before.stack_pointer >= 3)
    => /\ cpu.panic = NoPanic
       /\ StackCell(cpu, before.stack_pointer) = before.program_counter \div 256
       /\ StackCell(cpu, before.stack_pointer - 1) = before.program_counter % 256
       /\ StackCell(cpu, before.stack_pointer - 2) = before.processor_status
       /\ SameMemoryExcept(cpu, before,
                           (\h0100 + before.stack_pointer - 2)..(\h0100 + before.stack_pointer))
       /\ cpu.stack_pointer = before.stack_pointer - 3
       /\ cpu.processor_status = before.processor_status + 4
       /\ cpu.program_counter = Word(before, \hFFFE)
       /\ SameRegisters(cpu, before)
       /\ ~IrqLine(cpu) /\ ~NmiLine(cpu)
       /\ ret.dispatch = "MaskableInterrupt"
       /\ ret.cycles = Some(7)

C1_Witness ==
    /\ call = "cycle"
    /\ IrqLine(before) /\ ~NmiLine(before) /\ IFlag(before) = 0
    /\ before.stack_pointer = 3
    /\ cpu.stack_pointer = 0
    /\ cpu.program_counter = \hC056
    /\ ~IrqLine(cpu)
    /\ ret.cycles = Some(7)

(* C2: with both the NMI and the IRQ line asserted and I clear, a single   *)
(* cycle() dispatches only the NMI: PC is loaded from 0xFFFA/0xFFFB, the   *)
(* NMI line is cleared, the IRQ line stays asserted, exactly three bytes   *)
(* are pushed and no instruction is fetched or executed.                   *)
C2_NmiBeforeIrq ==
    (/\ call = "cycle"
     /\ NmiLine(before) /\ IrqLine(before) /\ IFlag(before) = 0)
    => /\ cpu.panic = NoPanic
       /\ cpu.program_counter = Word(before, \hFFFA)
       /\ ~NmiLine(cpu) /\ IrqLine(cpu)
       /\ cpu.stack_pointer = (before.stack_pointer - 3) % 256
       /\ StackCell(cpu, before.stack_pointer) = before.program_counter \div 256
       /\ StackCell(cpu, (before.stack_pointer - 1) % 256) = before.program_counter % 256
       /\ StackCell(cpu, (before.stack_pointer - 2) % 256) = before.processor_status
       /\ SameMemoryExcept(cpu, before,
                           {\h0100 + ((before.stack_pointer - k) % 256) : k \in 0..2})
       /\ SameRegisters(cpu, before)
       /\ ret.cycles = Some(7)

(* C3: cycle() takes the NMI path whether I is set or clear; with the IRQ  *)
(* line asserted, the NMI line not asserted and I set, cycle() leaves the  *)
(* IRQ line asserted and does to the Cpu, and returns, exactly what it     *)
(* does with no interrupt pending.                                         *)
C3_IrqMaskedNmiNot ==
    /\ (call = "cycle" /\ NmiLine(before))
       => /\ ret.dispatch = "NonMaskableInterrupt"
          /\ ~NmiLine(cpu)
          /\ cpu.panic = NoPanic
             => /\ cpu.program_counter = Word(before, \hFFFA)
                /\ ret.cycles = Some(7)
    /\ (call = "cycle" /\ IrqLine(before) /\ ~NmiLine(before) /\ IFlag(before) = 1)
       => /\ IrqLine(cpu)
          /\ \E quiet \in {cycle([before EXCEPT !.interrupts.interrupt = FALSE])} :
                 /\ cpu = [quiet.cpu EXCEPT !.interrupts.interrupt = TRUE]
                 /\ ret = CycleReturn(quiet)

C3_Witness ==
    /\ call = "cycle"
    /\ IrqLine(before) /\ ~NmiLine(before) /\ IFlag(before) = 1
    /\ cpu.panic = NoPanic
    /\ IrqLine(cpu)
    /\ ret.dispatch = "fetch"
    /\ cpu.accumulator # before.accumulator

(* C4: an interrupt entry that completes has loaded PC with the low byte   *)
(* at the vector address and the high byte at the vector address + 1: the  *)
(* vector is 0xFFFA for an NMI, 0xFFFC for Reset, 0xFFFE for a maskable    *)
(* IRQ and for the BRK opcode.                                             *)
C4_VectorByKind ==
    cpu.panic = NoPanic
    => /\ (call = "cycle" /\ NmiLine(before))
          => cpu.program_counter = Word(before, \hFFFA)
       /\ call \in {"reset", "initialize"}
          => cpu.program_counter = Word(before, \hFFFC)
       /\ (call = "cycle" /\ ~NmiLine(before) /\ IrqLine(before) /\ IFlag(before) = 0)
          => cpu.program_counter = Word(before, \hFFFE)
       /\ (call = "cycle" /\ Fetches(before) /\ OpcodeAt(before) = 0)
          => cpu.program_counter = Word(before, \hFFFE)
       /\ (call = "cycle_debug" /\ OpcodeAt(before) = 0)
          => cpu.program_counter = Word(before, \hFFFE)

C4_Witness ==
    /\ call = "reset"
    /\ cpu.panic = NoPanic
    /\ before.program_counter # \h2034
    /\ cpu.program_counter = \h2034

(* C5: on a Cpu freshly made by new() (registers zero, S = 0x00, not       *)
(* initialized) initialize() completes without fault and leaves            *)
(* initialized = true, I set and PC equal to the word at 0xFFFC/0xFFFD.    *)
C5_InitializeFresh ==
    (/\ call = "initialize"
     /\ before = new(before.memory_mapper, before.interrupts))
    => /\ cpu.panic = NoPanic
       /\ cpu.initialized
       /\ IFlag(cpu) = 1
       /\ cpu.program_counter = Word(before, \hFFFC)

(* C6: initialized is false after new() and true after from_state(); it    *)
(* turns from false to true only in an initialize() call, an initialize()  *)
(* that completes leaves it true, and no call turns it from true to false. *)
C6_Lifecycle ==
    /\ [](call = "new" => ~cpu.initialized)
    /\ [](call = "from_state" => cpu.initialized)
    /\ [][/\ cpu.initialized => cpu'.initialized
          /\ (~cpu.initialized /\ cpu'.initialized) => call' = "initialize"
          /\ (call' = "initialize" /\ cpu'.panic = NoPanic) => cpu'.initialized]_vars

C6_Witness ==
    /\ call = "initialize"
    /\ ~before.initialized
    /\ cpu.panic = NoPanic
    /\ cpu.initialized

(* C7: a push (PHA) writes the byte at 0x0100+S and leaves S at            *)
(* (S - 1) mod 256; a pop (PLA) leaves S at (S + 1) mod 256 and reads      *)
(* 0x0100 + that S; neither faults for any S.                              *)
C7_PushPopWrap ==
    (call = "cycle" /\ Fetches(before))
    => /\ OpcodeAt(before) = \h0048
          => /\ cpu.panic = NoPanic
             /\ StackCell(cpu, before.stack_pointer) = before.accumulator
             /\ cpu.stack_pointer = (before.stack_pointer - 1) % 256
       /\ OpcodeAt(before) = \h0068
          => /\ cpu.panic = NoPanic
             /\ cpu.stack_pointer = (before.stack_pointer + 1) % 256
             /\ cpu.accumulator = StackCell(before, (before.stack_pointer + 1) % 256)

(* C8: the run of 256 PHA and 256 PLA completes, and when it has, S, A     *)
(* and every memory cell outside 0x0100-0x01FF are as they were before the *)
(* first PHA.                                                              *)
C8_StackRoundTrip ==
    /\ cpu.panic = NoPanic
    /\ ncalls = 512
       => /\ cpu.stack_pointer = origin.stack_pointer
          /\ cpu.accumulator = origin.accumulator
          /\ SameMemoryExcept(cpu, origin, \h0100..\h01FF)

(* C9: whenever cycle() dispatches an interrupt or the byte at PC decodes  *)
(* to an opcode, cycle() returns a cycle count and does not fault.         *)
C9_CycleTotal ==
    (/\ call = "cycle"
     /\ ~Fetches(before) \/ try_new(OpcodeAt(before)) # None)
    => /\ cpu.panic = NoPanic
       /\ ret.cycles # None

(* C10: with no interrupt line asserted and a byte at PC that decodes to   *)
(* no opcode, cycle() returns to its caller without a fault, having        *)
(* executed nothing.                                                       *)
C10_UndecodableReturns ==
    (/\ call = "cycle"
     /\ ~NmiLine(before) /\ ~IrqLine(before)
     /\ try_new(OpcodeAt(before)) = None)
    => /\ cpu.panic = NoPanic
       /\ ret.cycles # None
       /\ cpu.program_counter = before.program_counter
       /\ SameRegisters(cpu, before)

(* C11: when the byte at PC decodes to no opcode, cycle_debug() returns    *)
(* (0, false, None) and leaves the registers, PC, memory and both          *)
(* interrupt lines as they were, so that calling it again returns the same *)
(* and again changes nothing.                                              *)
C11_DebugUndecodable ==
    (call = "cycle_debug" /\ try_new(OpcodeAt(before)) = None)
    => /\ cpu = before
       /\ ret.cycles = Some(0)
       /\ ret.ok = Some(FALSE)
       /\ ret.instruction = None
       /\ \E r \in {cycle_debug(cpu)} :
              /\ r.cpu = cpu
              /\ CycleDebugReturn(r) = ret

C11_Witness ==
    /\ call = "cycle_debug"
    /\ before.program_counter = \h0209
    /\ OpcodeAt(before) = \h0002
    /\ IrqLine(before) /\ NmiLine(before) /\ IFlag(before) = 0
    /\ ret.ok = Some(FALSE)
    /\ cpu.program_counter = \h0209

(* C12: whenever the byte at PC decodes, interrupt lines asserted or not,  *)
(* cycle_debug() leaves the Cpu as cycle() would leave it from the same    *)
(* state and reports the cycle count cycle() would return.                 *)
C12_DebugAsCycle ==
    (call = "cycle_debug" /\ try_new(OpcodeAt(before)) # None)
    => \E r \in {cycle(before)} :
           /\ cpu = r.cpu
           /\ ret.cycles = CycleReturn(r).cycles

(* C13: the BRK opcode fetched at address a with S >= 3 pushes the high    *)
(* byte and then the low byte of (a + 2) mod 65536, then P with bit 4 set; *)
(* afterwards I is set, PC is the word at 0xFFFE/0xFFFF, S is 3 lower and  *)
(* the step reports 7 cycles.                                              *)
C13_BrkOpcode ==
    (/\ (call = "cycle" /\ Fetches(before)) \/ call = "cycle_debug"
     /\ OpcodeAt(before) = \h0000
     /\ before.stack_pointer >= 3)
    => /\ cpu.panic = NoPanic
       /\ StackCell(cpu, before.stack_pointer)
              = ((before.program_counter + 2) % 65536) \div 256
       /\ StackCell(cpu, before.stack_pointer - 1)
              = ((before.program_counter + 2) % 65536) % 256
       /\ StackCell(cpu, before.stack_pointer - 2)
              = BitOr(before.processor_status, \h0010)
       /\ IFlag(cpu) = 1
       /\ cpu.program_counter = Word(before, \hFFFE)
       /\ cpu.stack_pointer = before.stack_pointer - 3
       /\ ret.cycles = Some(7)

C13_Witness ==
    /\ call = "cycle"
    /\ before.program_counter = \h0206
    /\ OpcodeAt(before) = \h0000
    /\ before.stack_pointer = 3
    /\ before.processor_status = \h00EB
    /\ cpu.stack_pointer = 0
    /\ StackCell(cpu, 2) = \h0008
    /\ StackCell(cpu, 1) = \h00FB
    /\ cpu.program_counter = \hC056

BFlag(c) == Bit(c.processor_status, 4)

(* The status byte an interrupt entry pushed: the third byte on the stack. *)
PushedStatus == StackCell(cpu, before.stack_pointer - 2)

(* C14: the status byte pushed by an interrupt entry has bit 4 (B) set     *)
(* when the entry comes from the BRK opcode or from Reset and clear when   *)
(* it comes from a maskable IRQ or an NMI, whatever the state before; in   *)
(* all four cases B is clear in P after the entry.                         *)
C14_BreakBit ==
    cpu.panic = NoPanic
    => /\ (\/ call \in {"reset", "initialize"}
           \/ /\ call \in {"cycle", "cycle_debug"}
              /\ ret.dispatch = "fetch"
              /\ OpcodeAt(before) = \h0000)
          => (Bit(PushedStatus, 4) = 1 /\ BFlag(cpu) = 0)
       /\ (/\ call = "cycle"
           /\ ret.dispatch \in {"MaskableInterrupt", "NonMaskableInterrupt"})
          => (Bit(PushedStatus, 4) = 0 /\ BFlag(cpu) = 0)

(* The byte a pull reads first: the cell above the stack pointer. *)
PoppedFirst == StackCell(before, before.stack_pointer + 1)

(* C15: after a PLP and after an RTI that complete, bits 4 and 5 of P are  *)
(* what they were before the instruction and the other six bits are those  *)
(* of the byte popped: P = (popped AND 0xCF) OR (P_before AND 0x30).       *)
C15_PullKeepsBits45 ==
    (/\ call \in {"cycle", "cycle_debug"}
     /\ ret.dispatch = "fetch"
     /\ OpcodeAt(before) \in {\h0028, \h0040}
     /\ cpu.panic = NoPanic)
    => \A i \in 0..7 :
           Bit(cpu.processor_status, i)
               = IF i \in {4, 5} THEN Bit(before.processor_status, i)
                                ELSE Bit(PoppedFirst, i)

C15_Witness ==
    /\ call = "cycle"
    /\ ret.dispatch = "fetch"
    /\ OpcodeAt(before) = \h0040
    /\ before.stack_pointer = 0
    /\ before.processor_status = \h0010
    /\ PoppedFirst = \h00FF
    /\ cpu.processor_status = \h00DF
    /\ cpu.stack_pointer = 3

(* The last call fetched and executed the instruction at PC. *)
Executed == (call = "cycle" /\ Fetches(before)) \/ call = "cycle_debug"

(* C16: a JSR fetched at address a with S >= 2 pushes the high and then    *)
(* the low byte of a + 2, sets PC to its operand, lowers S by 2 and        *)
(* reports 6 cycles; an RTS executed next sets PC to a + 3, restores S and *)
(* reports 6 cycles.                                                       *)
C16_JsrRts ==
    /\ (/\ Executed
        /\ OpcodeAt(before) = \h0020
        /\ before.stack_pointer >= 2)
       => /\ cpu.panic = NoPanic
          /\ StackCell(cpu, before.stack_pointer)
                 = (before.program_counter + 2) \div 256
          /\ StackCell(cpu, before.stack_pointer - 1)
                 = (before.program_counter + 2) % 256
          /\ cpu.program_counter = Word(before, before.program_counter + 1)
          /\ cpu.stack_pointer = before.stack_pointer - 2
          /\ ret.cycles = Some(6)
    /\ (/\ ncalls = 2
        /\ OpcodeAt(origin) = \h0020
        /\ origin.stack_pointer >= 2
        /\ before = cycle_debug(origin).cpu
        /\ before.panic = NoPanic
        /\ Executed
        /\ OpcodeAt(before) = \h0060)
       => /\ cpu.panic = NoPanic
          /\ cpu.program_counter = origin.program_counter + 3
          /\ cpu.stack_pointer = origin.stack_pointer
          /\ ret.cycles = Some(6)

(* The 16-bit operand of the instruction fetched from c. *)
Operand(c) == Word(c, c.program_counter + 1)

(* C17: JMP Indirect with pointer p takes the low byte of PC from          *)
(* memory[p] and the high byte from memory[p + 1], or from                 *)
(* memory[p AND 0xFF00] when the low byte of p is 0xFF; it reports 5       *)
(* cycles and changes no register other than PC.                           *)
C17_JmpIndirect ==
    (Executed /\ OpcodeAt(before) = \h006C)
    => /\ cpu.panic = NoPanic
       /\ cpu.program_counter % 256 = read(before, Operand(before))
       /\ cpu.program_counter \div 256
              = read(before, IF Operand(before) % 256 = 255
                             THEN Operand(before) - 255
                             ELSE Operand(before) + 1)
       /\ ret.cycles = Some(5)
       /\ SameRegisters(cpu, before)
       /\ cpu.stack_pointer = before.stack_pointer
       /\ cpu.processor_status = before.processor_status

C17_Witness ==
    /\ call = "cycle"
    /\ Fetches(before)
    /\ before.program_counter = \h0211
    /\ Operand(before) = \h30FF
    /\ read(before, \h3100) = \h0050
    /\ cpu.program_counter = \h4080
    /\ ret.cycles = Some(5)

(* The condition of the branch instruction at the PC of c. *)
BranchCondition(c) ==
    CASE OpcodeAt(c) = \h0010 -> Bit(c.processor_status, 7) = 0    \* BPL
      [] OpcodeAt(c) = \h0030 -> Bit(c.processor_status, 7) = 1    \* BMI
      [] OpcodeAt(c) = \h0050 -> Bit(c.processor_status, 6) = 0    \* BVC
      [] OpcodeAt(c) = \h0070 -> Bit(c.processor_status, 6) = 1    \* BVS
      [] OpcodeAt(c) = \h0090 -> Bit(c.processor_status, 0) = 0    \* BCC
      [] OpcodeAt(c) = \h00B0 -> Bit(c.processor_status, 0) = 1    \* BCS
      [] OpcodeAt(c) = \h00D0 -> Bit(c.processor_status, 1) = 0    \* BNE
      [] OpcodeAt(c) = \h00F0 -> Bit(c.processor_status, 1) = 1    \* BEQ

(* A byte read as a signed 8-bit value. *)
Signed(byte) == IF byte >= 128 THEN byte - 256 ELSE byte

(* PC after the fetch of a 2-byte instruction at the PC of c. *)
PostFetch(c) == (c.program_counter + 2) % 65536

BranchTarget(c) ==
    (PostFetch(c) + Signed(read(c, (c.program_counter + 1) % 65536)) + 65536) % 65536

(* C18: for each of the eight branch instructions, with q the PC after the *)
(* fetch and d the operand as a signed byte: when the condition is false   *)
(* PC = q and the step reports 2 cycles; when it is true PC = (q + d) mod  *)
(* 65536 and the step reports 4 cycles if the high byte of the new PC      *)
(* differs from that of q, otherwise 3.                                    *)
C18_Branch ==
    (Executed /\ OpcodeAt(before) \in BranchOpcodes)
    => /\ cpu.panic = NoPanic
       /\ IF BranchCondition(before)
          THEN /\ cpu.program_counter = BranchTarget(before)
               /\ ret.cycles
                      = Some(IF BranchTarget(before) \div 256 # PostFetch(before) \div 256
                             THEN 4 ELSE 3)
          ELSE /\ cpu.program_counter = PostFetch(before)
               /\ ret.cycles = Some(2)

C18_Witness ==
    /\ call = "cycle"
    /\ OpcodeAt(before) = \h00D0
    /\ before.program_counter = \h0000
    /\ read(before, 1) = \h0080
    /\ before.processor_status = \h0000
    /\ cpu.program_counter = \hFF82
    /\ ret.cycles = Some(4)

CFlag(c) == Bit(c.processor_status, 0)

ZFlag(c) == Bit(c.processor_status, 1)

VFlag(c) == Bit(c.processor_status, 6)

NFlag(c) == Bit(c.processor_status, 7)

(* The byte after the opcode of the instruction at the PC of c. *)
ImmediateOperand(c) == read(c, (c.program_counter + 1) % 65536)

UnsignedSum(c, m) == c.accumulator + m + CFlag(c)

SignedSum(c, m) == Signed(c.accumulator) + Signed(m) + CFlag(c)

(* What an addition of m to the accumulator of c with carry-in must leave  *)
(* in the Cpu d.                                                           *)
AddsWithCarry(c, m, d) ==
    /\ d.accumulator = UnsignedSum(c, m) % 256
    /\ CFlag(d) = (IF UnsignedSum(c, m) > 255 THEN 1 ELSE 0)
    /\ VFlag(d) = (IF SignedSum(c, m) < -128 \/ SignedSum(c, m) > 127 THEN 1 ELSE 0)
    /\ ZFlag(d) = (IF d.accumulator = 0 THEN 1 ELSE 0)
    /\ NFlag(d) = d.accumulator \div 128

(* C19: for every A, M and carry-in C, ADC leaves A = (A + M + C) mod 256, *)
(* carry = 1 iff A + M + C > 255, V = 1 iff the signed sum of A and M plus *)
(* C lies outside -128..127, Z = 1 iff the new A is 0 and N = bit 7 of the *)
(* new A, whether D is set or clear.                                       *)
C19_Adc ==
    (Executed /\ OpcodeAt(before) = \h0069)
    => /\ cpu.panic = NoPanic
       /\ AddsWithCarry(before, ImmediateOperand(before), cpu)

C19_Witness ==
    /\ call = "cycle"
    /\ OpcodeAt(before) = \h0069
    /\ before.accumulator = \h0050
    /\ ImmediateOperand(before) = \h0050
    /\ before.processor_status = \h0008
    /\ cpu.accumulator = \h00A0
    /\ cpu.processor_status = \h00C8
    /\ ret.cycles = Some(2)

(* The Cpu c with ADC #(M XOR 0xFF) in place of the SBC #M at its PC. *)
AsAdcOfComplement(c) ==
    write(write(c, c.program_counter, \h0069),
          (c.program_counter + 1) % 65536, 255 - ImmediateOperand(c))

SameArithmeticResult(c, d) ==
    /\ c.accumulator = d.accumulator
    /\ CFlag(c) = CFlag(d)
    /\ ZFlag(c) = ZFlag(d)
    /\ NFlag(c) = NFlag(d)
    /\ VFlag(c) = VFlag(d)

(* C20: SBC with operand M leaves the A, C, Z, N and V that ADC with       *)
(* operand M XOR 0xFF leaves from the same state: A becomes                *)
(* (A - M - (1 - C)) mod 256 and the carry out is 1 iff A >= M + (1 - C).  *)
C20_SbcAsAdc ==
    (Executed /\ OpcodeAt(before) = \h00E9)
    => /\ cpu.panic = NoPanic
       /\ SameArithmeticResult(cpu, cycle_debug(AsAdcOfComplement(before)).cpu)
       /\ cpu.accumulator
              = (before.accumulator - ImmediateOperand(before)
                    - (1 - CFlag(before)) + 256) % 256
       /\ CFlag(cpu) = (IF before.accumulator
                               >= ImmediateOperand(before) + (1 - CFlag(before))
                        THEN 1 ELSE 0)

C20_Witness ==
    /\ call = "cycle"
    /\ OpcodeAt(before) = \h00E9
    /\ before.accumulator = \h0050
    /\ ImmediateOperand(before) = \h00B0
    /\ before.processor_status = \h0001
    /\ cpu.accumulator = \h00A0
    /\ cpu.processor_status = \h00C0

(* The register the compare instruction at the PC of c compares. *)
ComparedRegister(c) ==
    CASE OpcodeAt(c) = \h00C9 -> c.accumulator
      [] OpcodeAt(c) = \h00E0 -> c.x
      [] OpcodeAt(c) = \h00C0 -> c.y

(* The Cpu c with its compared register in A, the carry set and SBC #M in  *)
(* place of the compare at its PC.                                         *)
AsSbcWithCarry(c) ==
    [write(c, c.program_counter, \h00E9)
        EXCEPT !.accumulator = ComparedRegister(c),
               !.processor_status = BitOr(c.processor_status, 1)]

(* C21: CMP, CPX and CPY with operand M leave carry = 1 iff R >= M, Z = 1  *)
(* iff R = M and N = bit 7 of (R - M) mod 256 for their register R, which  *)
(* are the N, Z and C of SBC M with carry-in 1 from the same register      *)
(* value; A, X, Y, S, the V, I and D flags and memory are unchanged.       *)
C21_Compare ==
    (Executed /\ OpcodeAt(before) \in CompareOpcodes)
    => /\ cpu.panic = NoPanic
       /\ CFlag(cpu) = (IF ComparedRegister(before) >= ImmediateOperand(before)
                        THEN 1 ELSE 0)
       /\ ZFlag(cpu) = (IF ComparedRegister(before) = ImmediateOperand(before)
                        THEN 1 ELSE 0)
       /\ NFlag(cpu) = ((ComparedRegister(before) - ImmediateOperand(before) + 256)
                            % 256) \div 128
       /\ \E r \in {cycle_debug(AsSbcWithCarry(before)).cpu} :
              /\ CFlag(cpu) = CFlag(r)
              /\ ZFlag(cpu) = ZFlag(r)
              /\ NFlag(cpu) = NFlag(r)
       /\ SameRegisters(cpu, before)
       /\ cpu.stack_pointer = before.stack_pointer
       /\ VFlag(cpu) = VFlag(before)
       /\ IFlag(cpu) = IFlag(before)
       /\ Bit(cpu.processor_status, 3) = Bit(before.processor_status, 3)
       /\ cpu.memory_mapper = before.memory_mapper

C21_Witness ==
    /\ call = "cycle"
    /\ OpcodeAt(before) = \h00E0
    /\ before.accumulator = \h0050
    /\ before.x = \h00A5
    /\ ImmediateOperand(before) = \h00A6
    /\ before.processor_status = \h004C
    /\ cpu.processor_status = \h00CC
    /\ cpu.x = \h00A5

DecodableBytes == {byte \in 0..255 : try_new(byte) # None}

(* C22: the decoder is a total function of the opcode byte alone: it       *)
(* returns an (Opcode, AddressingMode) pair for exactly 151 of the 256     *)
(* bytes and none for the other 105, none for any byte whose low nibble is *)
(* 0x3, 0x7, 0xB or 0xF, and what a step decodes depends on nothing but    *)
(* the byte at PC.                                                         *)
C22_DecoderTotal ==
    /\ Cardinality(DecodableBytes) = 151
    /\ Cardinality((0..255) \ DecodableBytes) = 105
    /\ \A byte \in 0..255 : byte % 16 \in {3, 7, 11, 15} => try_new(byte) = None
    /\ \A byte \in DecodableBytes :
           DOMAIN unwrap(try_new(byte)) = {"opcode", "addressing_mode"}
    /\ (call = "cycle_debug" /\ cpu.panic = NoPanic)
       => /\ ret.ok = Some(OpcodeAt(before) \in DecodableBytes)
          /\ ret.instruction # None
             => /\ unwrap(ret.instruction).opcode
                       = unwrap(try_new(OpcodeAt(before))).opcode
                /\ unwrap(ret.instruction).addressing_mode
                       = unwrap(try_new(OpcodeAt(before))).addressing_mode

C22_Witness ==
    /\ call = "cycle_debug"
    /\ OpcodeAt(before) = \h00A2
    /\ before.program_counter = \hFFFF
    /\ before.x = \h0001
    /\ ret.ok = Some(TRUE)
    /\ unwrap(ret.instruction).opcode = "LDX"
    /\ cpu.x = \h0034

(* Instructions that assign PC themselves. *)
ControlFlowOpcodes ==
    {"BCC", "BCS", "BEQ", "BMI", "BNE", "BPL", "BVC", "BVS", "JMP", "JSR", "RTS", "RTI",
     "BRK"}

(* The length of the instruction whose opcode byte decodes to full_opcode. *)
Length(full_opcode) ==
    IF full_opcode.opcode = "BRK" THEN 2 ELSE bytes_required(full_opcode.addressing_mode)

(* C23: for every decodable opcode the fetch reads exactly length - 1      *)
(* operand bytes, at (PC + 1) mod 65536 and (PC + 2) mod 65536, and        *)
(* advances PC by length modulo 65536, where length is bytes_required() of *)
(* the addressing mode (1, 2 or 3) and 2 for BRK; after an instruction     *)
(* that is no branch, jump, call, return or BRK, PC = (PC_before + length) *)
(* mod 65536.                                                              *)
C23_FetchLength ==
    (Executed /\ OpcodeAt(before) \in DecodableBytes)
    => \E full_opcode \in {unwrap(try_new(OpcodeAt(before)))} :
       \E fetched \in {fetch(before)} :
           /\ bytes_required(full_opcode.addressing_mode) \in {1, 2, 3}
           /\ fetched.cpu.program_counter
                  = (before.program_counter + Length(full_opcode)) % 65536
           /\ unwrap(fetched.instruction).low_byte
                  = IF Length(full_opcode) >= 2
                    THEN Some(read(before, (before.program_counter + 1) % 65536))
                    ELSE None
           /\ unwrap(fetched.instruction).high_byte
                  = IF Length(full_opcode) = 3
                    THEN Some(read(before, (before.program_counter + 2) % 65536))
                    ELSE None
           /\ (call = "cycle_debug" /\ cpu.panic = NoPanic)
              => ret.instruction = fetched.instruction
           /\ (cpu.panic = NoPanic /\ full_opcode.opcode \notin ControlFlowOpcodes)
              => cpu.program_counter
                     = (before.program_counter + Length(full_opcode)) % 65536

C23_Witness ==
    /\ call = "cycle_debug"
    /\ OpcodeAt(before) = \h00AD
    /\ before.program_counter = \hFFFF
    /\ unwrap(ret.instruction).low_byte = Some(\h0034)
    /\ unwrap(ret.instruction).high_byte = Some(\h0012)
    /\ cpu.program_counter = \h0002

(* C24: for every snapshot s, whatever its ram list, from_state(s, m, i)   *)
(* over a zero-filled mapper m succeeds, and the state() of the Cpu it     *)
(* returns equals s: the six registers exactly, the ram lists after        *)
(* sorting by address and dropping zero-valued entries.                    *)
C24_SnapshotRoundTrip ==
    /\ call = "from_state" => cpu.panic = NoPanic
    /\ (call = "state" /\ before = origin /\ snapshot # None)
       => CpuState_eq(unwrap(ret.state), unwrap(snapshot))

(* A ram list that names no address twice and holds bytes only. *)
WellFormedRam(ram) ==
    /\ \A i, j \in DOMAIN ram : i # j => ram[i][1] # ram[j][1]
    /\ \A i \in DOMAIN ram : ram[i][2] < 256

(* C24, restated: for every snapshot s whose ram list names each address   *)
(* at most once and holds values in 0..255, from_state(s, m, i) over a     *)
(* zero-filled mapper succeeds and the state() of the Cpu it returns       *)
(* equals s up to sorting the ram by address and dropping zero entries.    *)
C24_SnapshotRoundTripWellFormed ==
    (snapshot # None /\ WellFormedRam(unwrap(snapshot).ram))
    => /\ call = "from_state" => cpu.panic = NoPanic
       /\ (call = "state" /\ before = origin)
          => CpuState_eq(unwrap(ret.state), unwrap(snapshot))

C24_Witness ==
    /\ call = "state"
    /\ before = origin
    /\ unwrap(snapshot).ram = << <<\h0200, \h00EA>>, <<\h0010, \h0001>> >>
    /\ unwrap(ret.state).ram = << <<\h0010, \h0001>>, <<\h0200, \h00EA>> >>
    /\ unwrap(ret.state).a = \h0050

(* C25: reset() called with S >= 3 leaves the C, Z, D, V, N and B flags    *)
(* clear and the I flag set, leaves bit 5 of P and the registers A, X and  *)
(* Y unchanged, and sets PC to the little-endian word at 0xFFFC/0xFFFD.    *)
C25_Reset ==
    (call = "reset" /\ before.stack_pointer >= 3)
    => /\ cpu.panic = NoPanic
       /\ \A i \in {0, 1, 3, 4, 6, 7} : Bit(cpu.processor_status, i) = 0
       /\ IFlag(cpu) = 1
       /\ Bit(cpu.processor_status, 5) = Bit(before.processor_status, 5)
       /\ SameRegisters(cpu, before)
       /\ cpu.program_counter = read(before, \hFFFC) + 256 * read(before, \hFFFD)

C25_Witness ==
    /\ call = "reset"
    /\ before.stack_pointer = 3
    /\ before.processor_status = \h00EB
    /\ before.accumulator = \h0050
    /\ cpu.processor_status = \h0024
    /\ cpu.program_counter = \h2034
    /\ cpu.accumulator = \h0050
    /\ cpu.stack_pointer = 0

(* The low operand byte of the instruction at PC. *)
LowOperand(c) == read(c, (c.program_counter + 1) % 65536)

(* The IndirectX effective address as the 6502 forms it: both pointer      *)
(* bytes come from page zero.                                              *)
IndirectXAddress(c) ==
    read(c, (LowOperand(c) + c.x) % 256)
        + 256 * read(c, (LowOperand(c) + c.x + 1) % 256)

(* C26: LDA (zp,X) loads, and STA (zp,X) stores, at the address whose low  *)
(* byte is memory[z] and whose high byte is memory[(z + 1) mod 256], where *)
(* z = (operand + X) mod 256; for z = 0xFF the high byte is the one at     *)
(* 0x0000.                                                                 *)
C26_IndirectX ==
    (Executed /\ OpcodeAt(before) \in IndirectXOpcodes)
    => /\ cpu.panic = NoPanic
       /\ OpcodeAt(before) = \h00A1
              => /\ cpu.accumulator = read(before, IndirectXAddress(before))
                 /\ cpu.memory_mapper = before.memory_mapper
       /\ OpcodeAt(before) = \h0081
              => cpu.memory_mapper
                     = MapperWrite(before.memory_mapper, IndirectXAddress(before),
                                   before.accumulator)
       /\ ret.cycles = Some(6)

(* C26 away from the wrap: for z # 0xFF the claim's address is the one     *)
(* used, by the read form and by the write form.                           *)
C26_IndirectXInPage ==
    (/\ Executed /\ OpcodeAt(before) \in IndirectXOpcodes
     /\ (LowOperand(before) + before.x) % 256 # 255)
    => C26_IndirectX

(* The pointer an IndirectY operand names: both bytes come from page zero. *)
IndirectYPointer(c) ==
    read(c, LowOperand(c)) + 256 * read(c, (LowOperand(c) + 1) % 256)

IndirectYAddress(c) == (IndirectYPointer(c) + c.y) % 65536

IndirectYPageCrossed(c) ==
    LowOperand(c) = 255 \/ read(c, LowOperand(c)) + c.y > 255

(* What a read instruction leaves behind when its memory operand is the    *)
(* byte at address: LDA, LDX, LDY load it, CMP compares A with it, ADC and *)
(* SBC combine it with A and the carry.                                    *)
ReadsFrom(opcode, address) ==
    LET m == read(before, address)
    IN  /\ opcode \in {\h00B1, \h00BD, \h00B9, \h00B5} => cpu.accumulator = m
        /\ opcode \in {\h00BE, \h00B6} => cpu.x = m
        /\ opcode \in {\h00BC, \h00B4} => cpu.y = m
        /\ opcode \in {\h00D1, \h00DD, \h00D9, \h00D5}
               => /\ CFlag(cpu) = (IF before.accumulator >= m THEN 1 ELSE 0)
                  /\ ZFlag(cpu) = (IF before.accumulator = m THEN 1 ELSE 0)
        /\ opcode \in {\h0071, \h007D, \h0079, \h0075}
               => cpu.accumulator = (before.accumulator + m + CFlag(before)) % 256
        /\ opcode \in {\h00F1, \h00FD, \h00F9, \h00F5}
               => cpu.accumulator
                      = (before.accumulator + (255 - m) + CFlag(before)) % 256
        /\ cpu.memory_mapper = before.memory_mapper

(* C27: an IndirectY instruction uses the address                          *)
(* (memory[operand] + 256 * memory[(operand + 1) mod 256] + Y) mod 65536;  *)
(* ADC, SBC, CMP and LDA return 6 cycles when operand = 0xFF or            *)
(* memory[operand] + Y > 0xFF, and 5 otherwise.                            *)
C27_IndirectY ==
    (Executed /\ OpcodeAt(before) \in IndirectYOpcodes)
    => /\ cpu.panic = NoPanic
       /\ OpcodeAt(before) \in IndirectYReadOpcodes
              => /\ ReadsFrom(OpcodeAt(before), IndirectYAddress(before))
                 /\ ret.cycles = Some(IF IndirectYPageCrossed(before) THEN 6 ELSE 5)
       /\ OpcodeAt(before) = \h0091
              => cpu.memory_mapper
                     = MapperWrite(before.memory_mapper, IndirectYAddress(before),
                                   before.accumulator)

(* C27 without the cycle count: when adding Y stays within 16 bits the     *)
(* address used is the claimed one, and a read returns 6 cycles exactly    *)
(* when operand = 0xFF.                                                    *)
C27_IndirectYAddressOnly ==
    (/\ Executed /\ OpcodeAt(before) \in IndirectYOpcodes
     /\ IndirectYPointer(before) + before.y < 65536)
    => /\ cpu.panic = NoPanic
       /\ OpcodeAt(before) \in IndirectYReadOpcodes
              => /\ ReadsFrom(OpcodeAt(before), IndirectYAddress(before))
                 /\ ret.cycles = Some(IF LowOperand(before) = 255 THEN 6 ELSE 5)
       /\ OpcodeAt(before) = \h0091
              => cpu.memory_mapper
                     = MapperWrite(before.memory_mapper, IndirectYAddress(before),
                                   before.accumulator)

(* The index register of an absolute indexed instruction. *)
AbsoluteIndex(c) == IF OpcodeAt(c) \in AbsoluteYOpcodes THEN c.y ELSE c.x

AbsoluteIndexedAddress(c) == (Operand(c) + AbsoluteIndex(c)) % 65536

AbsoluteIndexedPageCrossed(c) == LowOperand(c) + AbsoluteIndex(c) > 255

(* What a read-modify-write instruction stores for the byte m it read. *)
Modified(opcode, m, carry) ==
    CASE opcode \in {\h001E, \h0016} -> (2 * m) % 256                  \* ASL
      [] opcode \in {\h005E, \h0056} -> m \div 2                       \* LSR
      [] opcode \in {\h003E, \h0036} -> (2 * m + carry) % 256          \* ROL
      [] opcode \in {\h007E, \h0076} -> (m \div 2) + 128 * carry       \* ROR
      [] opcode \in {\h00FE, \h00F6} -> (m + 1) % 256                  \* INC
      [] opcode \in {\h00DE, \h00D6} -> (m + 255) % 256                \* DEC

(* A read-modify-write instruction rewrote the byte at address and no other. *)
ModifiesAt(opcode, address) ==
    /\ cpu.memory_mapper
           = MapperWrite(before.memory_mapper, address,
                         Modified(opcode, read(before, address), CFlag(before)))
    /\ SameRegisters(cpu, before)

(* A store instruction wrote its register at address and nowhere else. *)
StoresAt(opcode, address) ==
    /\ cpu.memory_mapper
           = MapperWrite(before.memory_mapper, address,
                         CASE opcode \in {\h0096} -> before.x
                           [] opcode \in {\h0094} -> before.y
                           [] OTHER -> before.accumulator)
    /\ SameRegisters(cpu, before)
    /\ cpu.processor_status = before.processor_status

(* C28: an AbsoluteX or AbsoluteY instruction uses the address             *)
(* (base + index) mod 65536; ADC, SBC, CMP, LDA, LDX and LDY return 5      *)
(* cycles when (low byte of base) + index > 0xFF and 4 otherwise, STA      *)
(* returns 5 and ASL, LSR, ROL, ROR, INC and DEC return 7 either way.      *)
C28_AbsoluteIndexed ==
    (Executed /\ OpcodeAt(before) \in AbsoluteIndexedOpcodes)
    => /\ cpu.panic = NoPanic
       /\ OpcodeAt(before) \in AbsoluteIndexedReadOpcodes
              => /\ ReadsFrom(OpcodeAt(before), AbsoluteIndexedAddress(before))
                 /\ ret.cycles
                        = Some(IF AbsoluteIndexedPageCrossed(before) THEN 5 ELSE 4)
       /\ OpcodeAt(before) \in AbsoluteIndexedStoreOpcodes
              => /\ StoresAt(OpcodeAt(before), AbsoluteIndexedAddress(before))
                 /\ ret.cycles = Some(5)
       /\ OpcodeAt(before) \in AbsoluteIndexedModifyOpcodes
              => /\ ModifiesAt(OpcodeAt(before), AbsoluteIndexedAddress(before))
                 /\ ret.cycles = Some(7)

(* DEC $FFFF,X with X = 1: the index carries out of the base's low byte    *)
(* and the address wraps past 0xFFFF to 0x0000.                            *)
C28_Witness ==
    /\ Executed /\ OpcodeAt(before) = \h00DE
    /\ Operand(before) = \hFFFF /\ before.x = 1
    /\ AbsoluteIndexedAddress(before) = 0
    /\ ret.cycles = Some(7)
    /\ cpu.panic = NoPanic

(* The index register of a zero-page indexed instruction. *)
ZeropageIndex(c) == IF OpcodeAt(c) \in ZeropageYOpcodes THEN c.y ELSE c.x

ZeropageIndexedAddress(c) == (LowOperand(c) + ZeropageIndex(c)) % 256

(* C29: a zero-page indexed instruction reads or writes the cell           *)
(* (operand + index) mod 256 of page zero and no other; the index is X,    *)
(* except for LDX (0xB6) and STX (0x96), where it is Y and X takes no part *)
(* in forming the address.                                                 *)
C29_ZeropageIndexed ==
    (Executed /\ OpcodeAt(before) \in ZeropageIndexedOpcodes)
    => /\ cpu.panic = NoPanic
       /\ ZeropageIndexedAddress(before) \in 0 .. 255
       /\ OpcodeAt(before) \in {\h0075, \h00D5, \h00F5, \h00B5, \h00B4, \h00B6}
              => ReadsFrom(OpcodeAt(before), ZeropageIndexedAddress(before))
       /\ OpcodeAt(before) \in {\h0095, \h0094, \h0096}
              => StoresAt(OpcodeAt(before), ZeropageIndexedAddress(before))
       /\ OpcodeAt(before) \in {\h0016, \h0056, \h0036, \h0076, \h00F6, \h00D6}
              => ModifiesAt(OpcodeAt(before), ZeropageIndexedAddress(before))

(* LDA $FF,X with X = 1 and Y = 2 loads from 0x0000, whose byte differs    *)
(* from the ones at 0x0100 and 0x0001.                                     *)
C29_Witness ==
    /\ Executed /\ OpcodeAt(before) = \h00B5
    /\ LowOperand(before) = 255 /\ before.x = 1 /\ before.y = 2
    /\ cpu.accumulator = read(before, 0)
    /\ read(before, 0) # read(before, 256)
    /\ read(before, 0) # read(before, 1)

(* STX $FE,Y with X = 1 and Y = 2 stores X at 0x0000, where the cell       *)
(* indexed by X is 0x00FF.                                                 *)
C29_WitnessY ==
    /\ Executed /\ OpcodeAt(before) = \h0096
    /\ LowOperand(before) = 254 /\ before.x = 1 /\ before.y = 2
    /\ read(cpu, 0) = 1
    /\ read(cpu, 255) = read(before, 255)

(* The two calls made so far were a cycle() that dispatched an IRQ or an   *)
(* NMI from origin, with S >= 3, and a cycle() that executed the RTI at    *)
(* the handler address.                                                    *)
DispatchedThenReturned ==
    /\ ncalls = 2
    /\ call = "cycle"
    /\ ~Fetches(origin)
    /\ origin.stack_pointer >= 3
    /\ before = cycle(origin).cpu
    /\ Fetches(before)
    /\ OpcodeAt(before) = \h0040

(* C30: from a state with S >= 3, a cycle() that dispatches an IRQ or an   *)
(* NMI followed by a cycle() that executes an RTI at the handler address   *)
(* leaves PC, S, all eight bits of P, A, X and Y as they were before the   *)
(* dispatch.                                                               *)
C30_InterruptRtiInverse ==
    DispatchedThenReturned
    => /\ cpu.panic = NoPanic
       /\ cpu.program_counter = origin.program_counter
       /\ cpu.stack_pointer = origin.stack_pointer
       /\ cpu.processor_status = origin.processor_status
       /\ SameRegisters(cpu, origin)

(* An IRQ taken with P = 0x10 and S = 3: the dispatch leaves S = 0 and     *)
(* I set, the RTI brings back S = 3 and P = 0x10.                          *)
C30_Witness ==
    /\ DispatchedThenReturned
    /\ IrqLine(origin) /\ ~NmiLine(origin)
    /\ origin.processor_status = \h0010
    /\ origin.stack_pointer = 3
    /\ before.stack_pointer = 0
    /\ IFlag(before) = 1
    /\ before.program_counter = \hC056
    /\ cpu.stack_pointer = 3
    /\ cpu.processor_status = \h0010

(* The same through an NMI, with P = 0xEB and S = 0xFF. *)
C30_WitnessNmi ==
    /\ DispatchedThenReturned
    /\ NmiLine(origin)
    /\ origin.processor_status = \h00EB
    /\ origin.stack_pointer = 255
    /\ before.program_counter = \h9012
    /\ cpu.processor_status = \h00EB

(* The call just made was a cycle() that dispatched the maskable IRQ. *)
DispatchedIrq ==
    /\ call = "cycle"
    /\ IrqLine(before) /\ ~NmiLine(before) /\ IFlag(before) = 0
    /\ cpu.panic = NoPanic
    /\ ~IrqLine(cpu)
    /\ cpu.program_counter = Word(before, \hFFFE)

(* C31: a call of the core turns the IRQ line from true to false only when *)
(* it is a cycle() that dispatches the IRQ; a cycle() that starts with I   *)
(* set or with the NMI line asserted leaves the IRQ line asserted; and a   *)
(* cycle() that starts with the IRQ line asserted, I clear and no NMI      *)
(* dispatches it.                                                          *)
C31_IrqNotLost ==
    /\ (IrqLine(before) /\ ~IrqLine(cpu)) => DispatchedIrq
    /\ (/\ call = "cycle" /\ IrqLine(before)
        /\ (IFlag(before) = 1 \/ NmiLine(before)))
       => IrqLine(cpu)
    /\ (/\ call = "cycle" /\ IrqLine(before)
        /\ IFlag(before) = 0 /\ ~NmiLine(before))
       => DispatchedIrq

(* C31 for a stack that can take the three pushes of the entry. *)
C31_IrqNotLostWithRoom ==
    (call = "from_state" \/ before.stack_pointer >= 3) => C31_IrqNotLost

(* What PHP (0x08) is claimed to do to the state before it. *)
PhpEffect ==
    /\ cpu.panic = NoPanic
    /\ read(cpu, \h0100 + before.stack_pointer) = BitOr(before.processor_status, \h0010)
    /\ SameMemoryExcept(cpu, before, {\h0100 + before.stack_pointer})
    /\ cpu.stack_pointer = before.stack_pointer - 1
    /\ ret.cycles = Some(3)
    /\ SameRegisters(cpu, before)
    /\ cpu.program_counter = (before.program_counter + 1) % 65536
    /\ cpu.processor_status = before.processor_status

(* C32: PHP pushes P OR 0x10 at 0x0100 + S, lowers S by one, returns 3     *)
(* cycles and leaves A, X, Y, the PC past the opcode and all eight bits of *)
(* P as they were.                                                         *)
C32_Php ==
    (Executed /\ OpcodeAt(before) = \h0008) => PhpEffect

(* C32 from a state whose P has bit 4 clear and whose stack has room. *)
C32_PhpBreakClear ==
    (/\ Executed /\ OpcodeAt(before) = \h0008
     /\ BFlag(before) = 0
     /\ before.stack_pointer >= 1)
    => PhpEffect

(* C32 apart from bit 4 of P: with room on the stack PHP clears bit 4 and  *)
(* keeps the other seven bits.                                             *)
C32_PhpClearsBreak ==
    (/\ Executed /\ OpcodeAt(before) = \h0008
     /\ before.stack_pointer >= 1)
    => /\ cpu.panic = NoPanic
       /\ cpu.processor_status = BitAnd(before.processor_status, \h00EF)
       /\ read(cpu, \h0100 + before.stack_pointer)
              = BitOr(before.processor_status, \h0010)

(* C33: a cycle(), cycle_debug() or reset() that starts with bit 4 (B) of  *)
(* P clear ends with bit 4 of P clear, so that no sequence of such calls   *)
(* from a state with bit 4 clear ever leaves it set.                       *)
C33_BreakNeverSet ==
    (call \in {"cycle", "cycle_debug", "reset"} /\ BFlag(before) = 0)
    => BFlag(cpu) = 0

(* C33 for the calls that return. *)
C33_BreakNeverSetOnReturn ==
    (/\ call \in {"cycle", "cycle_debug", "reset"}
     /\ BFlag(before) = 0
     /\ cpu.panic = NoPanic)
    => BFlag(cpu) = 0

UnusedFlag(c) == Bit(c.processor_status, 5)

(* C34: bit 5 of P is never changed: after every call of cycle(),          *)
(* cycle_debug(), reset() or initialize() it has the value it had when the *)
(* Cpu was constructed.                                                    *)
C34_UnusedBitKept ==
    UnusedFlag(cpu) = UnusedFlag(origin)

(* Bit 5 set at construction survives an RTI whose popped byte has bit 5   *)
(* clear, and bit 5 clear survives a PLP whose popped byte has it set.     *)
C34_Witness ==
    /\ Executed /\ OpcodeAt(before) = \h0040
    /\ cpu.panic = NoPanic
    /\ UnusedFlag(origin) = 1
    /\ Bit(PoppedFirst, 5) = 0
    /\ UnusedFlag(cpu) = 1

C34_WitnessPlp ==
    /\ Executed /\ OpcodeAt(before) = \h0028
    /\ cpu.panic = NoPanic
    /\ UnusedFlag(origin) = 0
    /\ Bit(PoppedFirst, 5) = 1
    /\ UnusedFlag(cpu) = 0

(* The address a shift instruction in a memory mode works on. *)
ShiftAddress(c) ==
    CASE OpcodeAt(c) % 32 = \h0006 -> LowOperand(c)
      [] OpcodeAt(c) % 32 = \h0016 -> (LowOperand(c) + c.x) % 256
      [] OpcodeAt(c) % 32 = \h000E -> Operand(c)
      [] OpcodeAt(c) % 32 = \h001E -> (Operand(c) + c.x) % 65536

(* The byte a shift instruction works on: A or the byte at its address. *)
ShiftInput(c) ==
    IF OpcodeAt(c) % 32 = \h000A THEN c.accumulator ELSE read(c, ShiftAddress(c))

(* The claimed result of ASL (0), ROL (1), LSR (2), ROR (3) on v with old  *)
(* carry c, and the carry it leaves.                                       *)
ShiftResult(kind, v, c) ==
    CASE kind = 0 -> (2 * v) % 256
      [] kind = 1 -> ((2 * v) % 256) + c
      [] kind = 2 -> v \div 2
      [] kind = 3 -> (v \div 2) + 128 * c

ShiftCarry(kind, v) == IF kind \in {0, 1} THEN v \div 128 ELSE v % 2

(* C35: ASL, LSR, ROL and ROR produce the claimed result and carry from    *)
(* the byte v and the old carry, set N and Z from the result, change A and *)
(* no memory in Accumulator mode, and in a memory mode write the result to *)
(* the address that was read and leave A unchanged.                        *)
C35_Shifts ==
    (Executed /\ OpcodeAt(before) \in ShiftOpcodes)
    => \E r \in {ShiftResult(OpcodeAt(before) \div 32, ShiftInput(before),
                             CFlag(before))} :
           /\ cpu.panic = NoPanic
           /\ CFlag(cpu) = ShiftCarry(OpcodeAt(before) \div 32, ShiftInput(before))
           /\ NFlag(cpu) = r \div 128
           /\ ZFlag(cpu) = (IF r = 0 THEN 1 ELSE 0)
           /\ IF OpcodeAt(before) % 32 = \h000A
              THEN /\ cpu.accumulator = r
                   /\ cpu.memory_mapper = before.memory_mapper
              ELSE /\ cpu.memory_mapper
                          = MapperWrite(before.memory_mapper, ShiftAddress(before), r)
                   /\ cpu.accumulator = before.accumulator

(* ROR $1240,X with X = 0xC5 on the byte 0x01 with carry set: the result   *)
(* 0x80 is written back to $1305, carry and N are set, A is kept.          *)
C35_Witness ==
    /\ Executed /\ OpcodeAt(before) = \h007E
    /\ ShiftAddress(before) = \h1305
    /\ read(before, \h1305) = 1 /\ CFlag(before) = 1
    /\ read(cpu, \h1305) = 128
    /\ CFlag(cpu) = 1 /\ NFlag(cpu) = 1 /\ ZFlag(cpu) = 0
    /\ cpu.accumulator = \h005A

(* The two calls made so far executed a rotate of the accumulator and then *)
(* the opposite rotate of the accumulator.                                 *)
RotatedBothWays ==
    /\ ncalls = 2
    /\ OpcodeAt(origin) \in {\h002A, \h006A}
    /\ before = cycle_debug(origin).cpu
    /\ Executed
    /\ OpcodeAt(before) \in {\h002A, \h006A} \ {OpcodeAt(origin)}

(* C36: ROL A followed by ROR A, and ROR A followed by ROL A, leave A and  *)
(* the carry flag as they were before the pair.                            *)
C36_RotateInverse ==
    RotatedBothWays
    => /\ cpu.panic = NoPanic
       /\ cpu.accumulator = origin.accumulator
       /\ CFlag(cpu) = CFlag(origin)

(* ROL A then ROR A on A = 0x80 with carry clear: in between A is 0x00     *)
(* with the carry set.                                                     *)
C36_Witness ==
    /\ RotatedBothWays
    /\ OpcodeAt(origin) = \h002A
    /\ origin.accumulator = 128 /\ CFlag(origin) = 0
    /\ before.accumulator = 0 /\ CFlag(before) = 1
    /\ cpu.accumulator = 128 /\ CFlag(cpu) = 0

(* C37: TXS sets S to X and changes no bit of P and no other register;     *)
(* TSX sets X to S, Z iff that byte is 0 and N to its bit 7, and leaves S  *)
(* as it was; each returns 2 cycles and leaves the memory as it was.       *)
C37_StackPointerTransfers ==
    /\ (Executed /\ OpcodeAt(before) = \h009A)
       => /\ cpu.panic = NoPanic
          /\ cpu.stack_pointer = before.x
          /\ cpu.processor_status = before.processor_status
          /\ SameRegisters(cpu, before)
          /\ cpu.program_counter = (before.program_counter + 1) % 65536
          /\ ret.cycles = Some(2)
          /\ cpu.memory_mapper = before.memory_mapper
    /\ (Executed /\ OpcodeAt(before) = \h00BA)
       => /\ cpu.panic = NoPanic
          /\ cpu.x = before.stack_pointer
          /\ ZFlag(cpu) = (IF before.stack_pointer = 0 THEN 1 ELSE 0)
          /\ NFlag(cpu) = before.stack_pointer \div 128
          /\ cpu.stack_pointer = before.stack_pointer
          /\ cpu.accumulator = before.accumulator /\ cpu.y = before.y
          /\ ret.cycles = Some(2)
          /\ cpu.memory_mapper = before.memory_mapper

(* TXS with X = 0x00 and every bit of P set: S becomes 0 and Z, N and the  *)
(* rest of P stay as they were.                                            *)
C37_Witness ==
    /\ Executed /\ OpcodeAt(before) = \h009A
    /\ before.x = 0 /\ before.stack_pointer = 128
    /\ before.processor_status = 255
    /\ cpu.stack_pointer = 0
    /\ cpu.processor_status = 255

(* TSX with S = 0x80 and P = 0x82: X becomes 0x80, N stays set, Z is cleared. *)
C37_WitnessTsx ==
    /\ Executed /\ OpcodeAt(before) = \h00BA
    /\ before.stack_pointer = 128 /\ before.x = 0
    /\ before.processor_status = \h0082
    /\ cpu.x = 128 /\ NFlag(cpu) = 1 /\ ZFlag(cpu) = 0

(* The instructions whose execute routine matches on the addressing mode   *)
(* and falls back to handle_invalid_addressing_mode.                       *)
ModeMatchingOpcodes ==
    {"ADC", "SBC", "CMP", "CPX", "CPY", "INC", "DEC", "ASL", "LSR", "ROL", "ROR",
     "LDA", "LDX", "LDY", "STA", "STX", "STY", "JMP"}

(* The byte decodes to one of the mode-matching instructions. *)
DecodesToModeMatching(byte) ==
    \E full_opcode \in {try_new(byte)} :
        full_opcode # None /\ unwrap(full_opcode).opcode \in ModeMatchingOpcodes

(* C38: executing a byte that decodes to ADC, SBC, CMP, CPX, CPY, INC,     *)
(* DEC, ASL, LSR, ROL, ROR, LDA, LDX, LDY, STA, STX, STY or JMP never      *)
(* ends in the 'Invalid addressing mode' failure.                          *)
C38_ModesHandled ==
    (Executed /\ DecodesToModeMatching(OpcodeAt(before)))
    => cpu.panic # "Invalid addressing mode"

(* STX with the byte 0x96, which the decoder reports as ZeropageXIndexed,  *)
(* is executed and returns 4 cycles.                                       *)
C38_Witness ==
    /\ Executed /\ OpcodeAt(before) = \h0096
    /\ unwrap(try_new(\h0096)).addressing_mode = "ZeropageXIndexed"
    /\ cpu.panic = NoPanic
    /\ ret.cycles = Some(4)

============================================================================
